---- MODULE Spec2Model ----
(***************************************************************************)
(* Model of the llama-runner worker supervisor (LlamaRunnerManager), its   *)
(* worker threads (LlamaRunnerThread / LlamaCppRunner) and the startup     *)
(* gate of the two HTTP gateways (Ollama and LM Studio proxies).           *)
(*                                                                         *)
(* Every handler of the manager is one atomic action.  A worker thread is  *)
(* a small state machine whose steps are the points at which the thread    *)
(* can be observed from the manager: thread started, event loop running,   *)
(* process spawned, startup line read, process exited, thread finished.    *)
(* Signals and posted events of one worker thread are delivered to the     *)
(* manager in the order in which the thread emitted them.                  *)
(*                                                                         *)
(* Further parts of the program are modelled on their own, each with its   *)
(* own specification: the stop protocol of one worker statement by         *)
(* statement (WorkerSpec), the request body a gateway forwards             *)
(* (ToolsSpec), the streaming translation of the Ollama gateway            *)
(* (BridgeSpec), the handling of one non-streaming gateway request         *)
(* (RequestSpec), the log parser (ParserSpec, GenerationSpec), the         *)
(* worker's command line (LaunchSpec), the reading of a worker's output    *)
(* (ReaderSpec), one streaming request of the OpenAI gateway (StreamSpec), *)
(* a log parser instance used for several calls (InstanceSpec), rejected   *)
(* startup requests (RejectSpec) and the completion of startup requests    *)
(* under fair scheduling (StartupFairSpec).                                *)
(***************************************************************************)
EXTENDS Integers, Sequences, FiniteSets, TLC

\* ------------------------------------------------------------------------
\* Bounds and program constants
\* ------------------------------------------------------------------------
\* Worker threads (LlamaRunnerThread objects) created in one behaviour.
MaxInst == 3
\* Output lines that match no startup pattern, per worker process.
MaxLines == 1
\* Gateway requests (HTTP callers) in one behaviour.
NumCallers == 2
\* QTimer.singleShot cleanups pending at once for one model.
MaxTimers == 1
\* stop() calls on one worker thread in one behaviour.
MaxStops == 2
\* Members (key and value) written in the JSON body of one gateway request.
MaxFields == 3
\* SSE blocks the worker sends in one streamed response.
MaxEvents == 3
\* collections.deque(maxlen=10) of LlamaCppRunner._output_buffer.
RingMax == 10

\* Model names (keys of the "models" section of the configuration).
Models == {"m1", "m2", "m3"}
Proxies == {"ollama", "lmstudio"}
Insts == 1 .. MaxInst
Callers == 1 .. NumCallers

\* What the configuration says about one model and its runtime.
\*   path     model_path: "none" (missing or empty), "nofile" (no such file on
\*            disk) or "file"
\*   key      llama_cpp_runtime of the model: "default" or "named"
\*   entry    the entry of llama-runtimes under that key as written: "absent",
\*            "str" (legacy form, the command), "dict" ({"runtime": command})
\*            or "other" (any other JSON value)
\*   cmd      the command of the entry: "" (missing or empty) or "bin"
\*   cmdfile  a file named by the entry's command exists on disk
\*   dfltfile a file named by default_runtime ("llama-server") exists on disk
\*   loaded   llama-runtimes went through load_config (the application) or is
\*            handed to the manager as written (a direct construction)
ModelConfig(p, k, e, c, f, d, l) ==
    [path |-> p, key |-> k, entry |-> e, cmd |-> c, cmdfile |-> f, dfltfile |-> d,
     loaded |-> l]
ValidConfig == ModelConfig("file", "named", "dict", "bin", TRUE, FALSE, TRUE)
ModelConfigs ==
    { ModelConfig(p, k, e, c, f, d, l) :
        p \in {"none", "nofile", "file"}, k \in {"default", "named"},
        e \in {"absent", "str", "dict", "other"}, c \in {"", "bin"},
        f \in BOOLEAN, d \in BOOLEAN, l \in BOOLEAN }

\* The deployments explored.  limit is concurrentRunners, models the
\* configured models; the other fields bound the environment: how many worker
\* threads are created (insts), how many lines that match no startup pattern
\* a process prints (lines), how many gateway requests arrive (callers), and
\* which calls are made on the manager's own thread (local): "none", "start"
\* (request_runner_start), "all" (request_runner_start and stop_llama_runner)
\* or "shutdown" (request_runner_start, then one stop_all_llama_runners).
\* cfg holds, per model, what config.json says about it (ModelConfig below);
\* the deployments listed here are valid throughout.
Deployment(l, ms, n, k, c, g) ==
    [limit |-> l, models |-> ms, insts |-> n, lines |-> k, callers |-> c, local |-> g,
     cfg |-> [m \in Models |-> ValidConfig]]
Deployments ==
    { Deployment(1, {"m1"}, MaxInst, 0, 0, "start"),
      Deployment(1, {"m1", "m2"}, MaxInst - 1, MaxLines, 0, "all"),
      Deployment(2, {"m1", "m2", "m3"}, MaxInst - 1, 0, 0, "all"),
      Deployment(1, {"m1"}, MaxInst - 1, 0, NumCallers, "none") }

VARIABLES
    conf,       \* the deployment: concurrent_runners_limit, self.models, environment
    threads,    \* LlamaRunnerManager.llama_runner_threads: model -> thread id (0: no entry)
    futures,    \* LlamaRunnerManager._runner_startup_futures: model -> future handle
    inst,       \* the LlamaRunnerThread objects and their LlamaCppRunner
    fut,        \* the asyncio.Future created together with thread i
    evq,        \* signals/events emitted by thread i and not yet handled by the manager
    timers,     \* pending QTimer.singleShot(_cleanup_completed_future) per model
    cache,      \* proxy._runner_ready_futures: proxy -> model -> future handle
    callers,    \* gateway request handlers
    overlap,    \* history: pairs of callers that awaited the same model's startup together
    shutdown,   \* the stop_all_llama_runners call: its position and what it saw
    wk,         \* one worker thread and its process, statement by statement
    body,       \* a gateway request body on its way to the worker
    bridge,     \* a streaming response being translated by the Ollama gateway
    gw,         \* a gateway request being handled: non-streaming, or a stream of events
    lp,         \* the llama.cpp log parser and the log lines fed to it
    launch,     \* a LlamaCppRunner.start call assembling the worker's command line
    rd          \* a worker's output reader: startup detection and the output ring

\* The state of the supervisor and of the startup gate.
managerVars == <<threads, futures, inst, fut, evq, timers, cache, callers, overlap, shutdown>>

\* The state of the request handler, log parser, launcher and reader sub-systems.
auxVars == <<gw, lp, launch, rd>>

\* The value of a sub-system variable in a specification that does not exercise it.
Absent == [st |-> "absent"]

AuxAbsent == gw = Absent /\ lp = Absent /\ launch = Absent /\ rd = Absent

vars == <<conf, threads, futures, inst, fut, evq, timers, cache, callers, overlap, shutdown,
          wk, body, bridge, gw, lp, launch, rd>>

\* LlamaRunnerManager.concurrent_runners_limit
concurrent_runners_limit == conf.limit
\* self.models: the models of the loaded configuration
Configured == conf.models

\* ------------------------------------------------------------------------
\* Futures
\* ------------------------------------------------------------------------
\* A handle names a future object.  id > 0: the future created at line 104 of
\* request_runner_start together with thread id (it is the only kind of future
\* that is ever pending and shared).  id = 0: a future that was completed by
\* the statement that created it; it is described by its result.
NoErr == <<>>
NoFuture == [id |-> 0, kind |-> "absent", port |-> 0, err |-> NoErr]
Ref(i) == [id |-> i, kind |-> "ref", port |-> 0, err |-> NoErr]
DonePort(p) == [id |-> 0, kind |-> "port", port |-> p, err |-> NoErr]
DoneErr(e) == [id |-> 0, kind |-> "error", port |-> 0, err |-> e]

\* The future object of thread i.  src and dead are history: the thread whose
\* signal completed the future, and the threads whose process had already
\* exited when the future was created.
FreshFuture(dead) == [st |-> "pending", port |-> 0, err |-> NoErr, src |-> 0, dead |-> dead]
UnusedFuture == [st |-> "unused", port |-> 0, err |-> NoErr, src |-> 0, dead |-> {}]

\* h names a future object (the dictionary has an entry).
Present(h) == h.kind # "absent"
\* asyncio.Future.done() of the future named by h.
FutDone(h) == IF h.id = 0 THEN h.kind # "absent" ELSE fut[h.id].st # "pending"
\* Result of a done future: "port", "error" or "cancelled".
FutKind(h) == IF h.id = 0 THEN h.kind ELSE fut[h.id].st
FutPort(h) == IF h.id = 0 THEN h.port ELSE fut[h.id].port
FutErr(h) == IF h.id = 0 THEN h.err ELSE fut[h.id].err

\* ------------------------------------------------------------------------
\* Worker thread (LlamaRunnerThread) and its process (LlamaCppRunner)
\* ------------------------------------------------------------------------
\* phase: "unused"    no such thread object yet
\*        "init"      QThread.start() was called, run() has not begun
\*        "spawn"     run() set up its event loop; no process yet
\*        "startup"   process created, wait_for_server_startup is reading
\*        "serving"   startup line matched, run_async awaits process.wait()
\*        "finishing" run_async is over (events posted), run() not returned
\*        "finished"  run() returned, QThread.isRunning() is False
\* asked and preds are history: stop() was called on the thread at some time,
\* and the threads with a live process that the creating call asked to stop.
UnusedInst ==
    [model |-> "none", phase |-> "unused", manual |-> FALSE, asked |-> FALSE,
     stopSched |-> FALSE, proc |-> "none", port |-> 0, ring |-> <<>>, preds |-> {}]

\* LlamaRunnerThread.__init__
FreshInst(m, preds) == [UnusedInst EXCEPT !.model = m, !.phase = "init", !.preds = preds]

\* The port the kernel assigns to the process of thread i.
PortOf(i) == 8000 + i

\* QThread.isRunning()
IsRunning(r) == r.phase \in {"init", "spawn", "startup", "serving", "finishing"}
\* LlamaCppRunner.is_running(): process is not None and returncode is None
RunnerIsRunning(r) == r.proc = "alive"

Event(type, m, port, msg, buf) ==
    [type |-> type, model |-> m, port |-> port, msg |-> msg, buf |-> buf]
PortReadyEv(m, p) == Event("port_ready", m, p, "", <<>>)
ErrorEv(m, msg, buf) == Event("error", m, 0, msg, buf)
StoppedEv(m) == Event("stopped", m, 0, "", <<>>)

\* deque(maxlen=RingMax).append
RingAppend(ring, line) ==
    IF Len(ring) < RingMax THEN Append(ring, line) ELSE Append(Tail(ring), line)

\* LlamaRunnerThread.stop(): sets the flags and, when the thread's loop is
\* running, schedules _request_stop_runner on it; otherwise only warns.  Once
\* run_async is over nothing reads the flags any more.
ThreadStop(r) ==
    IF r.phase \in {"init", "spawn", "startup", "serving"}
       THEN [r EXCEPT !.manual = TRUE, !.asked = TRUE,
                      !.stopSched = @ \/ r.phase # "init"]
       ELSE r

\* The finally block of run_async once the process is gone: a RunnerErrorEvent
\* when no error was emitted, no stop was requested and the exit code is not 0,
\* then the RunnerStoppedEvent.
FinallyEvents(r, emitted, rc) ==
    (IF ~emitted /\ ~r.manual /\ rc # 0
        THEN <<ErrorEv(r.model, "exit_code", r.ring)>> ELSE <<>>)
    \o <<StoppedEv(r.model)>>

\* A thread whose run_async is over: nothing reads its flags or its output
\* buffer any more (the events carry what the manager is told).
Finishing(r, proc) ==
    [UnusedInst EXCEPT !.model = r.model, !.phase = "finishing", !.proc = proc,
                       !.preds = r.preds]

\* run(): flags reset, event loop created and run_async scheduled.
ThreadRunBegin(i) ==
    /\ inst[i].phase = "init"
    /\ inst' = [inst EXCEPT ![i] = [@ EXCEPT !.phase = "spawn", !.manual = FALSE]]
    /\ UNCHANGED <<conf, auxVars, shutdown, wk, body, bridge, threads, futures, fut, evq, timers, cache, callers, overlap>>

\* LlamaCppRunner.start(): asyncio.create_subprocess_exec succeeds.
RunnerSpawn(i) ==
    /\ inst[i].phase = "spawn"
    /\ inst' = [inst EXCEPT ![i] = [@ EXCEPT !.phase = "startup", !.proc = "alive"]]
    /\ UNCHANGED <<conf, auxVars, shutdown, wk, body, bridge, threads, futures, fut, evq, timers, cache, callers, overlap>>

\* LlamaCppRunner.start(): the binary cannot be executed; start() raises,
\* run_async emits error(message, output buffer) and posts the stopped event.
RunnerSpawnFails(i) ==
    /\ inst[i].phase = "spawn"
    /\ LET r == inst[i]
       IN /\ inst' = [inst EXCEPT ![i] = Finishing(r, "none")]
          /\ evq' = [evq EXCEPT ![i] = @ \o <<ErrorEv(r.model, "runtime_not_found", r.ring)>>
                                         \o FinallyEvents(r, TRUE, 0)]
    /\ UNCHANGED <<conf, auxVars, shutdown, wk, body, bridge, threads, futures, fut, timers, cache, callers, overlap>>

\* wait_for_server_startup reads a line that matches no startup pattern.
ReadNoiseLine(i) ==
    /\ inst[i].phase = "startup"
    /\ Len(inst[i].ring) < conf.lines
    /\ inst' = [inst EXCEPT ![i] = [@ EXCEPT !.ring = RingAppend(@, "noise")]]
    /\ UNCHANGED <<conf, auxVars, shutdown, wk, body, bridge, threads, futures, fut, evq, timers, cache, callers, overlap>>

\* wait_for_server_startup reads a startup line with its port: the port is
\* set, start() returns and run_async emits started and port_ready.
ReadListeningLine(i) ==
    /\ inst[i].phase = "startup"
    /\ inst' = [inst EXCEPT ![i] = [@ EXCEPT !.phase = "serving", !.port = PortOf(i),
                                             !.ring = RingAppend(@, "listening")]]
    /\ evq' = [evq EXCEPT ![i] = Append(@, PortReadyEv(inst[i].model, PortOf(i)))]
    /\ UNCHANGED <<conf, auxVars, shutdown, wk, body, bridge, threads, futures, fut, timers, cache, callers, overlap>>

\* The process ends with return code rc while its thread is in startup
\* (EOF on stdout: start() raises, run_async emits error) or serving
\* (process.wait() returns); then the finally block of run_async runs.
ExitEffects(i, rc) ==
    LET r == inst[i]
        failed == r.phase = "startup"
        first == IF failed
                   THEN <<ErrorEv(r.model, "exited_during_startup", r.ring)>>
                   ELSE <<>>
    IN /\ inst' = [inst EXCEPT ![i] = Finishing(r, "exited")]
       /\ evq' = [evq EXCEPT ![i] = @ \o first \o FinallyEvents(r, failed, rc)]

\* The process exits on its own (rc 0) or crashes (rc 1).
ProcessExits(i, rc) ==
    /\ inst[i].phase \in {"startup", "serving"}
    /\ ExitEffects(i, rc)
    /\ UNCHANGED <<conf, auxVars, shutdown, wk, body, bridge, threads, futures, fut, timers, cache, callers, overlap>>

\* wait_for_server_startup reads a startup marker without a port and returns
\* False with the process alive: run_async raises, emits error, stops the
\* process in its finally block and posts stopped.
ReadMarkerWithoutPort(i) ==
    /\ inst[i].phase = "startup"
    /\ LET r == [inst[i] EXCEPT !.ring = RingAppend(@, "marker_noport")]
       IN /\ inst' = [inst EXCEPT ![i] = Finishing(r, "exited")]
          /\ evq' = [evq EXCEPT ![i] = @ \o <<ErrorEv(r.model, "no_port", r.ring)>>
                                         \o FinallyEvents(r, TRUE, -15)]
    /\ UNCHANGED <<conf, auxVars, shutdown, wk, body, bridge, threads, futures, fut, timers, cache, callers, overlap>>

\* _request_stop_runner runs on the thread's loop: LlamaCppRunner.stop().
\* Without a process there is nothing to stop (the request is lost); with a
\* live process it is terminated and the thread sees it exit with rc -15.
StopCoroutineRuns(i) ==
    /\ inst[i].stopSched
    /\ IF inst[i].proc = "alive"
          THEN ExitEffects(i, -15)
          ELSE /\ inst' = [inst EXCEPT ![i] = [@ EXCEPT !.stopSched = FALSE]]
               /\ evq' = evq
    /\ UNCHANGED <<conf, auxVars, shutdown, wk, body, bridge, threads, futures, fut, timers, cache, callers, overlap>>

\* run() returns: QThread.isRunning() becomes False.
ThreadFinishes(i) ==
    /\ inst[i].phase = "finishing"
    /\ inst' = [inst EXCEPT ![i] = [@ EXCEPT !.phase = "finished"]]
    /\ UNCHANGED <<conf, auxVars, shutdown, wk, body, bridge, threads, futures, fut, evq, timers, cache, callers, overlap>>

\* ------------------------------------------------------------------------
\* Supervisor (LlamaRunnerManager)
\* ------------------------------------------------------------------------
\* Exceptions are modelled by the data their message is built from.
ErrPortUnavailable == <<"RuntimeError", "running but port is unavailable">>
ErrCapacity == <<"RuntimeError", "concurrent runner limit reached">>
ErrConfig(why) == <<"RuntimeError", "configuration", why>>
ErrErrored(msg) == <<"RuntimeError", "errored during startup", msg>>
ErrStopped == <<"RuntimeError", "stopped unexpectedly during startup">>

\* load_config: an entry of llama-runtimes with a non-empty command becomes
\* {"runtime": command, "supports_tools": ...}; every other entry is skipped.
LoadRuntime(c) ==
    IF c.entry \in {"str", "dict"} /\ c.cmd # "" THEN [c EXCEPT !.entry = "dict"]
    ELSE [c EXCEPT !.entry = "absent"]

\* self.llama_runtimes.get(llama_cpp_runtime_key, self.default_runtime): the
\* entry, or default_runtime (the string "llama-server") when there is none.
RawRuntime(c) ==
    LET r == IF c.loaded THEN LoadRuntime(c) ELSE c
    IN IF r.entry = "absent"
          THEN [type |-> "str", cmd |-> "llama-server", file |-> c.dfltfile]
          ELSE [type |-> r.entry, cmd |-> r.cmd, file |-> r.cmd # "" /\ r.cmdfile]

\* The checks of request_runner_start on the model's configuration entry
\* (runtime command, model_path, files on disk): "ok" or the reason of the
\* rejection.
ConfigCheck(m) ==
    LET c == conf.cfg[m]
        raw == RawRuntime(c)
    IN IF raw.type = "dict" /\ raw.cmd = "" THEN "invalid runtime config"
       ELSE IF raw.type = "other" THEN "invalid runtime configuration type"
       ELSE IF c.path = "none" THEN "no model_path"
       ELSE IF c.path = "nofile" THEN "model file not found"
       ELSE IF c.key # "default" /\ ~raw.file THEN "runtime not found"
       ELSE "ok"

\* is_llama_runner_running(model_name)
IsLlamaRunnerRunning(m) ==
    /\ threads[m] # 0
    /\ IsRunning(inst[threads[m]])
    /\ RunnerIsRunning(inst[threads[m]])

\* get_runner_port(model_name); 0 stands for None
GetRunnerPort(m) == IF IsLlamaRunnerRunning(m) THEN inst[threads[m]].port ELSE 0

\* running_runners of request_runner_start: the models whose thread isRunning()
RunningRunners == {n \in Models : threads[n] # 0 /\ IsRunning(inst[threads[n]])}

FreeInsts == {i \in 1 .. conf.insts : inst[i].phase = "unused"}
NextInst == CHOOSE i \in FreeInsts : \A j \in FreeInsts : i <= j

\* Threads whose process has exited by now (history for FreshFuture).
DeadNow == {i \in Insts : inst[i].proc = "exited"}

\* The result of a request_runner_start call: the new values of the manager's
\* state and the future returned (ret).  NoChange: nothing was touched yet.
NoChange ==
    [threads |-> threads, futures |-> futures, inst |-> inst, fut |-> fut,
     timers |-> timers, ret |-> NoFuture]

\* Lines 72-75, 79-82, 99-102: a future completed on the spot is registered
\* for the model, its cleanup timer is armed and it is returned.  qt tells
\* whether the caller is on the Qt main thread, where the timer fires.
Completed(m, h, qt) ==
    [NoChange EXCEPT !.futures = [futures EXCEPT ![m] = h],
                     !.timers = [timers EXCEPT ![m] = IF qt THEN @ + 1 ELSE @],
                     !.ret = h]

\* Lines 63-65: a startup future for the model is registered and not done.
StartupPending(m) == Present(futures[m]) /\ ~FutDone(futures[m])

\* Lines 84-86: as many threads are running as the limit allows.
CapacityReached == Cardinality(RunningRunners) >= concurrent_runners_limit

\* Variant of AlreadyRunning that reports the port as unavailable also when
\* the runner has one.
AlreadyRunningNoPort(m, qt) == Completed(m, DoneErr(ErrPortUnavailable), qt)

\* Lines 67-82: the model's runner is running; the future carries its port,
\* or an error when the port is not known yet.
AlreadyRunning(m, qt) ==
    IF GetRunnerPort(m) # 0
       THEN Completed(m, DonePort(GetRunnerPort(m)), qt)
       ELSE Completed(m, DoneErr(ErrPortUnavailable), qt)

\* Variant of CapacityExceeded that asks the running threads to stop before it
\* rejects the request.
CapacityExceededStopping(m, qt) ==
    [Completed(m, DoneErr(ErrCapacity), qt) EXCEPT
        !.inst = [i \in Insts |-> IF i \in {threads[n] : n \in RunningRunners}
                                     THEN ThreadStop(inst[i]) ELSE inst[i]]]

\* Lines 92-102: the limit is reached and is not 1.
CapacityExceeded(m, qt) == Completed(m, DoneErr(ErrCapacity), qt)

\* Lines 88-91: with limit 1 every running thread is asked to stop.
ToStop == IF CapacityReached /\ concurrent_runners_limit = 1
             THEN {threads[n] : n \in RunningRunners} ELSE {}
StoppedOthers == [i \in Insts |-> IF i \in ToStop THEN ThreadStop(inst[i]) ELSE inst[i]]

\* Lines 107-138: the configuration entry is rejected (after lines 88-91 ran).
ConfigRejected(m) ==
    [NoChange EXCEPT !.inst = StoppedOthers,
                     !.futures = [futures EXCEPT ![m] = DoneErr(ErrConfig(ConfigCheck(m)))],
                     !.ret = DoneErr(ErrConfig(ConfigCheck(m)))]

\* Variant of StartWorker that keeps a future already registered for the
\* model instead of registering a new one for the new thread.
StartWorkerKeepingFuture(m) ==
    LET id == NextInst
        livePreds == {i \in ToStop : RunnerIsRunning(inst[i])}
        kept == IF Present(futures[m]) THEN futures[m] ELSE Ref(id)
    IN [NoChange EXCEPT !.inst = [StoppedOthers EXCEPT ![id] = FreshInst(m, livePreds)],
                        !.fut = [fut EXCEPT ![id] = FreshFuture(DeadNow)],
                        !.threads = [threads EXCEPT ![m] = id],
                        !.futures = [futures EXCEPT ![m] = kept],
                        !.ret = kept]

\* Lines 88-91, 104-105, 140-162: the pending future is registered, the thread
\* is created, registered and started.
StartWorker(m) ==
    LET id == NextInst
        livePreds == {i \in ToStop : RunnerIsRunning(inst[i])}
    IN [NoChange EXCEPT !.inst = [StoppedOthers EXCEPT ![id] = FreshInst(m, livePreds)],
                        !.fut = [fut EXCEPT ![id] = FreshFuture(DeadNow)],
                        !.threads = [threads EXCEPT ![m] = id],
                        !.futures = [futures EXCEPT ![m] = Ref(id)],
                        !.ret = Ref(id)]

\* request_runner_start(model_name)
RequestRunnerStart(m, qt) ==
    IF StartupPending(m) THEN [NoChange EXCEPT !.ret = futures[m]]
    ELSE IF IsLlamaRunnerRunning(m) THEN AlreadyRunning(m, qt)
    ELSE IF CapacityReached /\ concurrent_runners_limit # 1 THEN CapacityExceeded(m, qt)
    ELSE IF ConfigCheck(m) # "ok" THEN ConfigRejected(m)
    ELSE StartWorker(m)

\* The call can be made within the bounds: a thread object is left when one
\* is created, and the timer counter does not pass MaxTimers.
CanCall(m, qt) ==
    LET completes == IsLlamaRunnerRunning(m)
                     \/ (CapacityReached /\ concurrent_runners_limit # 1)
    IN \/ StartupPending(m)
       \/ ~StartupPending(m) /\ completes /\ (qt => timers[m] < MaxTimers)
       \/ ~StartupPending(m) /\ ~completes /\ (ConfigCheck(m) # "ok" \/ FreeInsts # {})

\* No stop_all_llama_runners call was made yet.
NoShutdown == [st |-> "idle", waited |-> {}, pend |-> {}]

\* The manager's thread is not inside a blocking call: slots, timers and
\* posted events of the manager run only then.  stop_all_llama_runners blocks
\* it in QThread.wait() (st = "waiting").
MainThreadFree == shutdown.st # "waiting"

\* request_runner_start(name) called on the manager's thread (the Qt main
\* thread, where a QTimer.singleShot armed by the call fires), as the slot of
\* a widget or a coroutine of the application's event loop does it; the
\* returned future is dropped.
RequestOnManagerThread(m) ==
    /\ conf.local # "none"
    /\ MainThreadFree
    /\ CanCall(m, TRUE)
    /\ LET R == RequestRunnerStart(m, TRUE)
       IN /\ threads' = R.threads
          /\ futures' = R.futures
          /\ inst' = R.inst
          /\ fut' = R.fut
          /\ timers' = R.timers
    /\ UNCHANGED <<conf, auxVars, shutdown, wk, body, bridge, evq, cache, callers, overlap>>

\* _cleanup_completed_future(model_name), run by the single-shot timer.
CleanupCompletedFuture(m) ==
    /\ MainThreadFree
    /\ timers[m] > 0
    /\ timers' = [timers EXCEPT ![m] = @ - 1]
    /\ futures' = IF Present(futures[m]) /\ ~FutDone(futures[m])
                     THEN [futures EXCEPT ![m] = NoFuture]
                     ELSE futures
    /\ UNCHANGED <<conf, auxVars, shutdown, wk, body, bridge, threads, inst, fut, evq, cache, callers, overlap>>

\* stop_llama_runner(model_name) called on the manager's thread.  For a
\* thread that is not running it only notifies the parent object.
StopLlamaRunner(m) ==
    /\ conf.local = "all"
    /\ MainThreadFree
    /\ threads[m] # 0
    /\ IsRunning(inst[threads[m]])
    /\ inst' = [inst EXCEPT ![threads[m]] = ThreadStop(@)]
    /\ UNCHANGED <<conf, auxVars, shutdown, wk, body, bridge, threads, futures, fut, evq, timers, cache, callers, overlap>>

\* stop_all_llama_runners(), up to its first thread.wait(): the threads that
\* are running are collected and stop_llama_runner calls stop() on each.
\* waited is the list running_threads; pend is history: the threads whose
\* startup future was pending when the call was made.
StopAllBegin ==
    /\ conf.local = "shutdown"
    /\ shutdown.st = "idle"
    /\ LET running == {threads[n] : n \in RunningRunners}
       IN /\ inst' = [i \in Insts |-> IF i \in running THEN ThreadStop(inst[i]) ELSE inst[i]]
          /\ shutdown' = [st |-> "waiting", waited |-> running,
                          pend |-> {i \in Insts : fut[i].st = "pending"}]
    /\ UNCHANGED <<conf, auxVars, wk, body, bridge, threads, futures, fut, evq, timers, cache, callers, overlap>>

\* stop_all_llama_runners() returns: thread.wait() has returned for every
\* thread of running_threads, that is, run() of each of them is over.
StopAllReturns ==
    /\ shutdown.st = "waiting"
    /\ \A i \in shutdown.waited : inst[i].phase = "finished"
    /\ shutdown' = [shutdown EXCEPT !.st = "returned"]
    /\ UNCHANGED <<conf, auxVars, wk, body, bridge, threads, futures, inst, fut, evq, timers, cache, callers, overlap>>

\* on_llama_runner_port_ready_and_emit(model_name, port), for the port_ready
\* signal at the head of thread i's queue.
OnPortReady(i) ==
    /\ MainThreadFree
    /\ evq[i] # <<>>
    /\ Head(evq[i]).type = "port_ready"
    /\ LET e == Head(evq[i])
           h == futures[e.model]
       IN fut' = IF Present(h) /\ ~FutDone(h)
                    THEN [fut EXCEPT ![h.id] = [@ EXCEPT !.st = "port", !.port = e.port,
                                                          !.src = i]]
                    ELSE fut
    /\ evq' = [evq EXCEPT ![i] = Tail(@)]
    /\ UNCHANGED <<conf, auxVars, shutdown, wk, body, bridge, threads, futures, inst, timers, cache, callers, overlap>>

\* on_llama_runner_error(model_name, message, output_buffer), for the error
\* signal or RunnerErrorEvent at the head of thread i's queue.  The output
\* buffer goes to the error dialog (ErrorOutputDialog, an external
\* collaborator: its exec() shows the lines and returns); the exception is
\* built from the message.
OnError(i) ==
    /\ MainThreadFree
    /\ evq[i] # <<>>
    /\ Head(evq[i]).type = "error"
    /\ LET e == Head(evq[i])
           h == futures[e.model]
       IN fut' = IF Present(h) /\ ~FutDone(h)
                    THEN [fut EXCEPT ![h.id] = [@ EXCEPT !.st = "error",
                                                          !.err = ErrErrored(e.msg),
                                                          !.src = i]]
                    ELSE fut
    /\ evq' = [evq EXCEPT ![i] = Tail(@)]
    /\ UNCHANGED <<conf, auxVars, shutdown, wk, body, bridge, threads, futures, inst, timers, cache, callers, overlap>>

\* customEvent -> on_llama_runner_stopped(model_name), for the
\* RunnerStoppedEvent at the head of thread i's queue.
OnStopped(i) ==
    /\ MainThreadFree
    /\ evq[i] # <<>>
    /\ Head(evq[i]).type = "stopped"
    /\ LET e == Head(evq[i])
           h == futures[e.model]
           known == threads[e.model] # 0
       IN /\ threads' = [threads EXCEPT ![e.model] = 0]
          /\ fut' = IF known /\ Present(h) /\ ~FutDone(h)
                       THEN [fut EXCEPT ![h.id] = [@ EXCEPT !.st = "error",
                                                             !.err = ErrStopped,
                                                             !.src = i]]
                       ELSE fut
    /\ evq' = [evq EXCEPT ![i] = Tail(@)]
    /\ UNCHANGED <<conf, auxVars, shutdown, wk, body, bridge, futures, inst, timers, cache, callers, overlap>>

\* ------------------------------------------------------------------------
\* Startup gate of the gateways (ollama_proxy_thread / lmstudio_proxy_thread)
\* ------------------------------------------------------------------------
IdleCaller == [st |-> "idle", proxy |-> "none", model |-> "none", h |-> NoFuture,
               out |-> "none", port |-> 0]
\* A handler that is past the gate: with the port (the request is forwarded)
\* or with an error response.
DoneCaller(out, port) == [st |-> "done", proxy |-> "none", model |-> "none", h |-> NoFuture,
                          out |-> out, port |-> port]

Pair(c, d) == IF c < d THEN <<c, d>> ELSE <<d, c>>

\* What a handler gets from awaiting the done future h: the port, or an
\* exception (set_exception, or CancelledError of a cancelled future).
Outcome(h, F) ==
    IF h.id = 0
       THEN DoneCaller(IF h.kind = "port" THEN "port" ELSE "error", h.port)
       ELSE DoneCaller(IF F[h.id].st = "port" THEN "port" ELSE "error",
                       IF F[h.id].st = "port" THEN F[h.id].port ELSE 0)

\* A gateway request for model m arrives at proxy px while the runner has a
\* port: get_runner_port_callback returns it; the proxy records a completed
\* future when it has no done one.
GatewayRequestRunning(c, px, m) ==
    /\ c <= conf.callers
    /\ callers[c].st = "idle"
    /\ GetRunnerPort(m) # 0
    /\ cache' = IF ~Present(cache[px][m]) \/ ~FutDone(cache[px][m])
                   THEN [cache EXCEPT ![px][m] = DonePort(GetRunnerPort(m))]
                   ELSE cache
    /\ callers' = [callers EXCEPT ![c] = DoneCaller("port", GetRunnerPort(m))]
    /\ UNCHANGED <<conf, auxVars, shutdown, wk, body, bridge, threads, futures, inst, fut, evq, timers, overlap>>

\* The caller starts to await future h; history: it waits together with
\* every caller that awaits a pending future for the same model.
Waits(c, px, m, h, F) ==
    /\ callers' = [callers EXCEPT ![c] = [st |-> "waiting", proxy |-> px, model |-> m,
                                          h |-> h, out |-> "none", port |-> 0]]
    /\ overlap' = overlap \cup {Pair(c, d) : d \in {x \in Callers \ {c} :
                                       /\ callers[x].st = "waiting"
                                       /\ callers[x].model = m
                                       /\ F[callers[x].h.id].st = "pending"}}

\* A gateway request while get_runner_port_callback returns None and the proxy
\* has no pending future for the model: request_runner_start_callback is
\* called, its future is stored and awaited with asyncio.wait_for.
GatewayRequestStart(c, px, m) ==
    /\ c <= conf.callers
    /\ callers[c].st = "idle"
    /\ GetRunnerPort(m) = 0
    /\ ~Present(cache[px][m]) \/ FutDone(cache[px][m])
    /\ CanCall(m, FALSE)
    /\ LET R == RequestRunnerStart(m, FALSE)
       IN /\ threads' = R.threads
          /\ futures' = R.futures
          /\ inst' = R.inst
          /\ fut' = R.fut
          /\ timers' = R.timers
          /\ cache' = [cache EXCEPT ![px][m] = R.ret]
          /\ IF R.ret.id # 0 /\ R.fut[R.ret.id].st = "pending"
                THEN Waits(c, px, m, R.ret, R.fut)
                ELSE /\ callers' = [callers EXCEPT ![c] = Outcome(R.ret, R.fut)]
                     /\ overlap' = overlap
    /\ UNCHANGED <<conf, auxVars, shutdown, wk, body, bridge, evq>>

\* A gateway request while get_runner_port_callback returns None and the proxy
\* holds a pending future for the model: the handler awaits that future.
GatewayRequestJoin(c, px, m) ==
    /\ c <= conf.callers
    /\ callers[c].st = "idle"
    /\ GetRunnerPort(m) = 0
    /\ Present(cache[px][m]) /\ ~FutDone(cache[px][m])
    /\ Waits(c, px, m, cache[px][m], fut)
    /\ UNCHANGED <<conf, auxVars, shutdown, wk, body, bridge, threads, futures, inst, fut, evq, timers, cache>>

\* The awaited future is done: the handler resumes with the port, with the
\* exception (the except branch then fails and drops the proxy's future if
\* that one is still pending), or with CancelledError.
CallerResumes(c) ==
    /\ callers[c].st = "waiting"
    /\ FutDone(callers[c].h)
    /\ LET px == callers[c].proxy
           m == callers[c].model
           h == callers[c].h
           k == cache[px][m]
           cleans == fut[h.id].st = "error" /\ Present(k) /\ ~FutDone(k)
       IN /\ callers' = [callers EXCEPT ![c] = Outcome(h, fut)]
          /\ fut' = IF cleans
                       THEN [fut EXCEPT ![k.id] = [@ EXCEPT !.st = "error",
                                                             !.err = fut[h.id].err]]
                       ELSE fut
          /\ cache' = IF cleans THEN [cache EXCEPT ![px][m] = NoFuture] ELSE cache
    /\ UNCHANGED <<conf, auxVars, shutdown, wk, body, bridge, threads, futures, inst, evq, timers, overlap>>

\* The 240 s of asyncio.wait_for expire: wait_for cancels the awaited future
\* and raises TimeoutError; the handler cancels and drops the proxy's future
\* if that one is still pending.
CallerTimesOut(c) ==
    /\ callers[c].st = "waiting"
    /\ ~FutDone(callers[c].h)
    /\ LET px == callers[c].proxy
           m == callers[c].model
           h == callers[c].h
           k == cache[px][m]
           cleans == Present(k) /\ ~FutDone(k) /\ k.id # h.id
           F1 == [fut EXCEPT ![h.id] = [@ EXCEPT !.st = "cancelled"]]
       IN /\ fut' = IF cleans THEN [F1 EXCEPT ![k.id] = [@ EXCEPT !.st = "cancelled"]]
                              ELSE F1
          /\ cache' = IF cleans THEN [cache EXCEPT ![px][m] = NoFuture] ELSE cache
          /\ callers' = [callers EXCEPT ![c] = DoneCaller("error", 0)]
    /\ UNCHANGED <<conf, auxVars, shutdown, wk, body, bridge, threads, futures, inst, evq, timers, overlap>>

\* The client of a waiting handler disconnects: the response task is
\* cancelled while it awaits asyncio.wait_for, which cancels the awaited future
\* and raises CancelledError.  CancelledError is no Exception, so neither
\* except branch runs and the proxy's dictionary keeps the future.
CallerDisconnects(c) ==
    /\ callers[c].st = "waiting"
    /\ ~FutDone(callers[c].h)
    /\ fut' = [fut EXCEPT ![callers[c].h.id] = [@ EXCEPT !.st = "cancelled"]]
    /\ callers' = [callers EXCEPT ![c] = DoneCaller("disconnected", 0)]
    /\ UNCHANGED <<conf, auxVars, shutdown, wk, body, bridge, threads, futures, inst, evq, timers, cache, overlap>>

\* ------------------------------------------------------------------------
\* One worker, statement by statement: LlamaRunnerThread.stop, run, run_async
\* and LlamaCppRunner.stop
\* ------------------------------------------------------------------------
\* ph      position of the thread, as the phases above
\* manual  _manual_stop_requested
\* proc    the operating system's process: "none", "alive" or "exited"
\* rc      its exit code once it has exited
\* seen    process.returncode is not None: the thread's loop has recorded the
\*         exit (process.wait() returns and stdout is at EOF from then on)
\* ref     LlamaCppRunner.process is not None
\* deaf    the server does not react to SIGTERM
\* term    a signal that ends the process has been delivered to it
\* co      the _request_stop_runner coroutines scheduled on the thread's loop:
\*         "sched" (not begun), "term" (awaiting process.wait() after
\*         terminate()), "kill" (awaiting it after kill()), "stopped" (over,
\*         the process it signalled has exited), "expired" (over, the 5 s
\*         after kill() passed without the exit being recorded) or
\*         "cleared" (over, it found no running process)
\* calls, sigdead, errs, posted, sigs are history: stop() calls made, signals
\* sent to a process whose exit was recorded, errors reported (error signal or
\* RunnerErrorEvent), RunnerStoppedEvents posted, the signals delivered to
\* the live process in order ("TERM" by terminate(), "KILL" by kill()).
NoWorker ==
    [ph |-> "unused", manual |-> FALSE, proc |-> "none", rc |-> 0, seen |-> FALSE,
     ref |-> FALSE, deaf |-> FALSE, term |-> FALSE, co |-> <<>>, calls |-> 0,
     sigdead |-> 0, errs |-> 0, posted |-> 0, sigs |-> <<>>]

\* LlamaRunnerThread.__init__ followed by QThread.start()
FreshWorker(deaf) == [NoWorker EXCEPT !.ph = "init", !.deaf = deaf]

\* LlamaCppRunner.is_running()
WkIsRunning(w) == w.ref /\ ~w.seen

\* self.loop.is_running(): run_until_complete(run_async()) is in progress.
LoopRunning(w) == w.ph \in {"spawn", "startup", "serving"}

\* LlamaRunnerThread.stop(): the flags are set; with the loop running a
\* _request_stop_runner coroutine is scheduled on it.
WkStop ==
    /\ wk.ph \in {"init", "spawn", "startup", "serving", "finishing", "finished"}
    /\ wk.calls < MaxStops
    /\ wk' = [wk EXCEPT !.manual = TRUE, !.calls = @ + 1,
                        !.co = IF LoopRunning(wk) THEN Append(@, "sched") ELSE @]
    /\ UNCHANGED <<conf, auxVars, managerVars, body, bridge>>

\* run(): the flags are reset and the loop is created.
WkRunBegin ==
    /\ wk.ph = "init"
    /\ wk' = [wk EXCEPT !.ph = "spawn", !.manual = FALSE]
    /\ UNCHANGED <<conf, auxVars, managerVars, body, bridge>>

\* LlamaCppRunner.start(): the process is created.
WkSpawn ==
    /\ wk.ph = "spawn"
    /\ wk' = [wk EXCEPT !.ph = "startup", !.proc = "alive", !.ref = TRUE]
    /\ UNCHANGED <<conf, auxVars, managerVars, body, bridge>>

\* wait_for_server_startup reads the listening line; run_async emits started
\* and port_ready and awaits process.wait().
WkListening ==
    /\ wk.ph = "startup"
    /\ ~wk.seen
    /\ wk.proc = "alive"
    /\ wk' = [wk EXCEPT !.ph = "serving"]
    /\ UNCHANGED <<conf, auxVars, managerVars, body, bridge>>

\* The process ends: on a delivered signal (exit code -15 or -9, written -15)
\* or on its own with code rc.
WkProcessEnds(rc) ==
    /\ wk.proc = "alive"
    /\ wk' = [wk EXCEPT !.proc = "exited", !.rc = IF wk.term THEN -15 ELSE rc]
    /\ UNCHANGED <<conf, auxVars, managerVars, body, bridge>>

\* The thread's loop records the exit: returncode is set.
WkExitSeen ==
    /\ wk.proc = "exited"
    /\ ~wk.seen
    /\ wk' = [wk EXCEPT !.seen = TRUE]
    /\ UNCHANGED <<conf, auxVars, managerVars, body, bridge>>

StopSignalsExited(w) == w.ref

\* The test of LlamaCppRunner.stop() that leads to terminate():
\* self.process and self.process.returncode is None.
StopSignals(w) == w.ref /\ ~w.seen

\* A runner whose terminate() is kill(): every signal is the hard one.
SendSignalAlwaysKill(w, kills) ==
    IF w.proc = "alive" THEN [w EXCEPT !.term = TRUE, !.sigs = Append(@, "KILL")]
    ELSE IF w.seen THEN [w EXCEPT !.sigdead = @ + 1]
    ELSE w

\* process.terminate() / process.kill().  A live process gets the signal
\* (SIGTERM has no effect on a deaf one).  For a process that has exited
\* without the loop having recorded it, Popen.send_signal polls first and
\* sends nothing.  A signal for a process whose exit is recorded is counted.
SendSignal(w, kills) ==
    IF w.proc = "alive"
    THEN [w EXCEPT !.term = @ \/ kills \/ ~w.deaf,
                   !.sigs = Append(@, IF kills THEN "KILL" ELSE "TERM")]
    ELSE IF w.seen THEN [w EXCEPT !.sigdead = @ + 1]
    ELSE w

\* Coroutine k runs LlamaCppRunner.stop() up to its first await: terminate()
\* for a process that runs; otherwise the process reference is cleared.
WkCoBegins(k) ==
    /\ k \in DOMAIN wk.co
    /\ wk.co[k] = "sched"
    /\ LoopRunning(wk)
    /\ wk' = IF StopSignals(wk)
                THEN [SendSignal(wk, FALSE) EXCEPT !.co[k] = "term"]
                ELSE [wk EXCEPT !.ref = FALSE, !.co[k] = "cleared"]
    /\ UNCHANGED <<conf, auxVars, managerVars, body, bridge>>

\* process.wait() of coroutine k returns: the stopped signal of the runner
\* is emitted (nothing is connected to it).
WkCoEnds(k) ==
    /\ k \in DOMAIN wk.co
    /\ wk.co[k] \in {"term", "kill"}
    /\ LoopRunning(wk)
    /\ wk.seen
    /\ wk' = [wk EXCEPT !.co[k] = "stopped"]
    /\ UNCHANGED <<conf, auxVars, managerVars, body, bridge>>

\* The 15 s of coroutine k pass with the process still running: kill().
WkCoTimesOut(k) ==
    /\ k \in DOMAIN wk.co
    /\ wk.co[k] = "term"
    /\ LoopRunning(wk)
    /\ wk.proc = "alive" /\ wk.deaf /\ ~wk.term
    /\ wk' = [SendSignal(wk, TRUE) EXCEPT !.co[k] = "kill"]
    /\ UNCHANGED <<conf, auxVars, managerVars, body, bridge>>

\* The 5 s that coroutine k waits after kill() pass before the loop has
\* recorded the exit: asyncio.TimeoutError is caught and the stopped signal
\* of the runner is emitted.
WkCoKillWaitExpires(k) ==
    /\ k \in DOMAIN wk.co
    /\ wk.co[k] = "kill"
    /\ LoopRunning(wk)
    /\ ~wk.seen
    /\ wk' = [wk EXCEPT !.co[k] = "expired"]
    /\ UNCHANGED <<conf, auxVars, managerVars, body, bridge>>

\* The finally block of run_async: a RunnerErrorEvent when no error was
\* emitted, no stop was requested and the recorded exit code is not 0; then
\* the RunnerStoppedEvent.
WkFinally(w, emitted) ==
    [w EXCEPT !.ph = "finishing",
              !.errs = @ + (IF emitted THEN 1
                            ELSE IF ~w.manual /\ w.ref /\ w.rc # 0 THEN 1 ELSE 0),
              !.posted = @ + 1]

\* The startup ends without a port because the process has exited: start()
\* raises or returns without a port, run_async emits error(message, buffer).
WkStartupFails ==
    /\ wk.ph = "startup"
    /\ wk.seen
    /\ wk' = WkFinally(wk, TRUE)
    /\ UNCHANGED <<conf, auxVars, managerVars, body, bridge>>

\* process.wait() of run_async returns.
WkWaitReturns ==
    /\ wk.ph = "serving"
    /\ wk.seen
    /\ wk' = WkFinally(wk, FALSE)
    /\ UNCHANGED <<conf, auxVars, managerVars, body, bridge>>

\* run() returns; the loop is closed with whatever was still scheduled on it.
WkThreadFinishes ==
    /\ wk.ph = "finishing"
    /\ wk' = [wk EXCEPT !.ph = "finished"]
    /\ UNCHANGED <<conf, auxVars, managerVars, body, bridge>>

\* ------------------------------------------------------------------------
\* Request bodies: tools and tool_choice (both gateways)
\* ------------------------------------------------------------------------
\* The text of a JSON object is the sequence of its members <<key, value>> as
\* written; a key may be written more than once.  A parsed object (a Python
\* dict) is the sequence of its keys in insertion order (keys) and the value
\* of each (val).
FieldKeys == {"model", "messages", "tools", "tool_choice"}
FieldValues == {1, 2}
JsonTexts == UNION { [1 .. n -> FieldKeys \X FieldValues] : n \in 0 .. MaxFields }

KeysOf(t) == {t[k][1] : k \in DOMAIN t}
\* The value a parser gives to key: the one written last.
ValueOf(t, key) ==
    LET last == CHOOSE k \in DOMAIN t :
                    /\ t[k][1] = key
                    /\ \A j \in DOMAIN t : t[j][1] = key => j <= k
    IN t[last][2]

\* The keys of text t in the order in which they first appear.
RECURSIVE FirstKeys(_)
FirstKeys(t) ==
    IF t = <<>> THEN <<>>
    ELSE LET init == FirstKeys(SubSeq(t, 1, Len(t) - 1))
             key == t[Len(t)][1]
         IN IF \E k \in DOMAIN init : init[k] = key THEN init ELSE Append(init, key)

\* json.loads / request.json(): a dict with the keys in the order in which
\* they first appear, each with the value written last.
Loads(t) == [keys |-> FirstKeys(t), val |-> [key \in KeysOf(t) |-> ValueOf(t, key)]]

\* json.dumps(dict) and httpx's json=dict: the members in the dict's order.
Dumps(d) == [k \in 1 .. Len(d.keys) |-> <<d.keys[k], d.val[d.keys[k]]>>]

\* dict.pop(key) / dict.pop(key, None)
Pop(d, key) ==
    [keys |-> SelectSeq(d.keys, LAMBDA x : x # key),
     val |-> [x \in DOMAIN d.val \ {key} |-> d.val[x]]]

StripOnlyTools(d) == Pop(d, "tools")

\* body.pop("tools"), body.pop("tool_choice") when present
StripTools(d) == Pop(Pop(d, "tools"), "tool_choice")

\* runtime_details_from_config.get("supports_tools") is False; the entry
\* holds "true", "false" or no such key ("absent").
NoToolSupport(supports) == supports = "false"

\* What a received request is: the gateway function that handles it, the
\* supports_tools of the runtime of its model, the text received and, once
\* it is forwarded, the text sent to the worker.
NoBody == [stage |-> "none", via |-> "none", supports |-> "absent", raw |-> <<>>, sent |-> <<>>]
Received(via, supports, raw) ==
    [stage |-> "received", via |-> via, supports |-> supports, raw |-> raw, sent |-> <<>>]

\* The request names no model: the gateway answers with an error and forwards
\* nothing.
RejectNoModel ==
    /\ body.stage = "received"
    /\ "model" \notin KeysOf(body.raw)
    /\ body' = [body EXCEPT !.stage = "rejected"]
    /\ UNCHANGED <<conf, auxVars, managerVars, wk, bridge>>

\* ollama_proxy_thread._dynamic_route_runner_request_generator: request_body
\* is the parsed body; it is stripped in place when the runtime has
\* supports_tools False and sent with json=request_body.
OllamaForward ==
    /\ body.stage = "received"
    /\ body.via = "ollama"
    /\ "model" \in KeysOf(body.raw)
    /\ LET request_body == Loads(body.raw)
       IN body' = [body EXCEPT !.stage = "forwarded",
                               !.sent = Dumps(IF NoToolSupport(body.supports)
                                                 THEN StripTools(request_body)
                                                 ELSE request_body)]
    /\ UNCHANGED <<conf, auxVars, managerVars, wk, bridge>>

\* lmstudio_proxy_thread._fetch_non_streaming_v1_response (via "lmstudio_fetch")
\* and _dynamic_route_v1_request_generator (via "lmstudio_stream"): body_bytes
\* is the text received; it is replaced by json.dumps(body) when the runtime
\* has supports_tools False and tools or tool_choice was popped, and sent
\* with content=body_bytes.
LMStudioForward ==
    /\ body.stage = "received"
    /\ body.via \in {"lmstudio_fetch", "lmstudio_stream"}
    /\ "model" \in KeysOf(body.raw)
    /\ LET parsed == Loads(body.raw)
           popped == NoToolSupport(body.supports)
                     /\ ("tools" \in DOMAIN parsed.val \/ "tool_choice" \in DOMAIN parsed.val)
       IN body' = [body EXCEPT !.stage = "forwarded",
                               !.sent = IF popped THEN Dumps(StripTools(parsed))
                                                  ELSE body.raw]
    /\ UNCHANGED <<conf, auxVars, managerVars, wk, bridge>>
\* ------------------------------------------------------------------------
\* Streaming translation of the Ollama gateway (generate_response_stream,
\* chat_response_stream)
\* ------------------------------------------------------------------------
\* What the worker sends: SSE blocks, each an OpenAI delta (its content and
\* its finish_reason) or the [DONE] marker.  last tells that the block is the
\* final one of the network chunk it arrives in.
Contents == {"", "He", "llo"}
Delta(c, f) == [type |-> "delta", content |-> c, finish |-> f]
DoneMarker == [type |-> "marker", content |-> "", finish |-> "none"]
UpstreamEvents == {Delta(c, f) : c \in Contents, f \in {"none", "stop"}} \cup {DoneMarker}
Block(e, last) == [ev |-> e, last |-> last]
Blocks == {Block(e, l) : e \in UpstreamEvents, l \in BOOLEAN}
Upstreams ==
    UNION { {u \in [1 .. n -> Blocks] : n = 0 \/ u[n].last} : n \in 0 .. MaxEvents }

\* The deltas among the blocks u, in their order.
RECURSIVE Deltas(_)
Deltas(u) ==
    IF u = <<>> THEN <<>>
    ELSE IF Head(u).ev.type = "delta" THEN <<Head(u).ev>> \o Deltas(Tail(u))
    ELSE Deltas(Tail(u))

\* chatResponseToOllama / generateResponseToOllama for one delta: the object
\* with the delta's text as message.content (chat) or response (generate).
ToOllama(e) == [content |-> e.content, done |-> "unset", done_reason |-> "none",
                eval_count |-> "none"]

\* prev_ollama_resp is None
NoObject == [content |-> "absent", done |-> "unset", done_reason |-> "none",
             eval_count |-> "none"]

\* The final fields: done true, done_reason "stop", eval_count str(eval_count).
Finalized(obj, count) ==
    [obj EXCEPT !.done = "true", !.done_reason = "stop", !.eval_count = ToString(count)]

\* The end-of-stream branch deletes an empty response field; the message of
\* a chat object is a non-empty dict and stays.
WithoutEmptyField(kind, obj) ==
    IF kind = "generate" /\ obj.content = "" THEN [obj EXCEPT !.content = "absent"] ELSE obj

\* kind      "chat" or "generate"
\* up        the blocks not yet read
\* prev      prev_ollama_resp
\* saw_stop, eval_count   the locals of the generator
\* out       the objects yielded so far
\* recv      history: the deltas taken off the upstream so far
NoBridge ==
    [st |-> "none", kind |-> "none", up |-> <<>>, prev |-> NoObject, saw_stop |-> FALSE,
     eval_count |-> 0, out |-> <<>>, recv |-> <<>>]
OpenBridge(kind, u) == [NoBridge EXCEPT !.st = "streaming", !.kind = kind, !.up = u]

FlushPrevDropped(b) == b

\* prev_ollama_resp is not None: it is yielded with done false, and counted
\* when its content is not empty.
FlushPrev(b) ==
    IF b.prev = NoObject THEN b
    ELSE [b EXCEPT !.out = Append(@, [b.prev EXCEPT !.done = "false"]),
                   !.eval_count = @ + (IF b.prev.content # "" THEN 1 ELSE 0)]

\* break: the blocks of the current network chunk that follow the first
\* block of u are not looked at.
RECURSIVE AfterChunk(_)
AfterChunk(u) == IF Head(u).last THEN Tail(u) ELSE AfterChunk(Tail(u))

\* One block is read.  [DONE] is skipped.  For a delta the buffered object
\* is yielded, the translated delta is buffered and, when its finish_reason
\* is "stop", yielded at once as the final object; the rest of the network
\* chunk is then skipped.
BridgeReadsBlock ==
    /\ bridge.st = "streaming"
    /\ bridge.up # <<>>
    /\ LET e == Head(bridge.up).ev
           b == FlushPrev(bridge)
       IN bridge' =
            IF e.type = "marker" THEN [bridge EXCEPT !.up = Tail(@)]
            ELSE IF e.finish = "stop"
               THEN [b EXCEPT !.out = Append(@, Finalized(ToOllama(e), b.eval_count)),
                              !.prev = NoObject,
                              !.saw_stop = TRUE,
                              !.up = AfterChunk(@),
                              !.recv = @ \o Deltas(SubSeq(bridge.up, 1,
                                               Len(bridge.up) - Len(AfterChunk(bridge.up))))]
               ELSE [b EXCEPT !.prev = ToOllama(e), !.up = Tail(@), !.recv = Append(@, e)]
    /\ UNCHANGED <<conf, auxVars, managerVars, wk, body>>

\* The upstream has ended: a buffered object is yielded as the final one
\* unless a stop was seen.
BridgeUpstreamEnds ==
    /\ bridge.st = "streaming"
    /\ bridge.up = <<>>
    /\ bridge' =
         IF bridge.prev # NoObject /\ ~bridge.saw_stop
            THEN [bridge EXCEPT !.st = "ended",
                                !.out = Append(@, Finalized(WithoutEmptyField(bridge.kind,
                                                       bridge.prev), bridge.eval_count)),
                                !.prev = NoObject]
            ELSE [bridge EXCEPT !.st = "ended"]
    /\ UNCHANGED <<conf, auxVars, managerVars, wk, body>>

\* ------------------------------------------------------------------------
\* Specification
\* ------------------------------------------------------------------------
\* The manager after __init__, no worker thread, no gateway request.
Constructed ==
    /\ threads = [m \in Models |-> 0]
    /\ futures = [m \in Models |-> NoFuture]
    /\ inst = [i \in Insts |-> UnusedInst]
    /\ fut = [i \in Insts |-> UnusedFuture]
    /\ evq = [i \in Insts |-> <<>>]
    /\ timers = [m \in Models |-> 0]
    /\ cache = [px \in Proxies |-> [m \in Models |-> NoFuture]]
    /\ callers = [c \in Callers |-> IdleCaller]
    /\ overlap = {}
    /\ shutdown = NoShutdown
    /\ wk = NoWorker
    /\ body = NoBody
    /\ bridge = NoBridge
    /\ AuxAbsent

Init ==
    /\ conf \in Deployments
    /\ Constructed

Next ==
    \/ \E m \in Configured : RequestOnManagerThread(m)
    \/ \E m \in Configured : StopLlamaRunner(m)
    \/ \E m \in Configured : CleanupCompletedFuture(m)
    \/ \E i \in Insts : ThreadRunBegin(i)
    \/ \E i \in Insts : RunnerSpawn(i)
    \/ \E i \in Insts : RunnerSpawnFails(i)
    \/ \E i \in Insts : ReadNoiseLine(i)
    \/ \E i \in Insts : ReadListeningLine(i)
    \/ \E i \in Insts : ReadMarkerWithoutPort(i)
    \/ \E i \in Insts, rc \in {0, 1} : ProcessExits(i, rc)
    \/ \E i \in Insts : StopCoroutineRuns(i)
    \/ \E i \in Insts : ThreadFinishes(i)
    \/ \E i \in Insts : OnPortReady(i)
    \/ \E i \in Insts : OnError(i)
    \/ \E i \in Insts : OnStopped(i)
    \/ \E c \in Callers, px \in Proxies, m \in Configured : GatewayRequestRunning(c, px, m)
    \/ \E c \in Callers, px \in Proxies, m \in Configured : GatewayRequestStart(c, px, m)
    \/ \E c \in Callers, px \in Proxies, m \in Configured : GatewayRequestJoin(c, px, m)
    \/ \E c \in Callers : CallerResumes(c)
    \/ \E c \in Callers : CallerTimesOut(c)

Spec == Init /\ [][Next]_vars

\* ------------------------------------------------------------------------
\* Properties
\* ------------------------------------------------------------------------
\* A worker that is starting or ready: its thread was started, stop() was never
\* called on it and its process has not exited (run_async is not over).
StartingOrReady(i) ==
    /\ inst[i].phase \in {"init", "spawn", "startup", "serving"}
    /\ ~inst[i].asked

\* C1: in every reachable state the number of workers that are starting or
\* ready (started, not yet asked to stop, not exited) is at most
\* concurrent_runners_limit.
C1_LimitRespected ==
    Cardinality({i \in Insts : StartingOrReady(i)}) <= concurrent_runners_limit

\* The worker threads created for model m whose process is alive.
LiveWorkers(m) == {i \in Insts : inst[i].model = m /\ RunnerIsRunning(inst[i])}

\* C2: in every reachable state the supervisor's set holds at most one worker
\* per model (llama_runner_threads maps a model name to one thread), and at
\* most one worker process started for a model is alive at a time.
C2_OneWorkerPerModel ==
    /\ \A m \in Models : threads[m] # 0 => inst[threads[m]].model = m
    /\ \A m \in Models : Cardinality(LiveWorkers(m)) <= 1

\* The startup of model m whose future was created together with thread i is
\* outstanding: that future is not done.
Outstanding(m, i) == inst[i].model = m /\ fut[i].st = "pending"

\* The step is a call of request_runner_start(m): on the manager's thread, or
\* from a gateway handler through request_runner_start_callback.
IsRequestStep(m) ==
    \/ RequestOnManagerThread(m)
    \/ \E c \in Callers, px \in Proxies : GatewayRequestStart(c, px, m)

\* C3: every request_runner_start(m) call made while a startup for m is
\* outstanding (its future is not done) returns that same future (it stays the
\* one registered for m, and is the one the gateway handler stores and awaits)
\* and creates no further worker thread.
C3_JoinsOutstandingStartup ==
    [][\A m \in Models, i \in Insts :
          (Outstanding(m, i) /\ IsRequestStep(m)) =>
              /\ futures'[m] = Ref(i)
              /\ \A c \in Callers : callers'[c] # callers[c] => callers'[c].h = Ref(i)
              /\ \A j \in Insts : inst[j].phase = "unused" => inst'[j].phase = "unused"]_vars

\* ------------------------------------------------------------------------
\* The gateways next to a client on the manager's thread: two HTTP callers,
\* one per gateway, with worker processes that start and, once they serve,
\* exit cleanly or are stopped.  The client on the manager's thread makes its
\* calls before the first HTTP request arrives.
\* ------------------------------------------------------------------------
ProxyOf(c) == IF c = 1 THEN "ollama" ELSE "lmstudio"

GatewayInit ==
    /\ conf = Deployment(1, {"m1"}, MaxInst, 0, NumCallers, "start")
    /\ Constructed

GatewayNext ==
    \/ \E m \in Configured : /\ \A c \in Callers : callers[c].st = "idle"
                             /\ RequestOnManagerThread(m)
    \/ \E m \in Configured : CleanupCompletedFuture(m)
    \/ \E i \in Insts : ThreadRunBegin(i)
    \/ \E i \in Insts : RunnerSpawn(i)
    \/ \E i \in Insts : ReadListeningLine(i)
    \/ \E i \in Insts : inst[i].phase = "serving" /\ ProcessExits(i, 0)
    \/ \E i \in Insts : StopCoroutineRuns(i)
    \/ \E i \in Insts : ThreadFinishes(i)
    \/ \E i \in Insts : OnPortReady(i)
    \/ \E i \in Insts : OnError(i)
    \/ \E i \in Insts : OnStopped(i)
    \/ \E c \in Callers, m \in Configured : GatewayRequestStart(c, ProxyOf(c), m)
    \/ \E c \in Callers : CallerResumes(c)
    \/ \E c \in Callers : CallerTimesOut(c)
    \/ \E c \in Callers : CallerDisconnects(c)

GatewaySpec == GatewayInit /\ [][GatewayNext]_vars

\* C4: gateway callers that waited at the same time for the startup of the
\* same model (each awaiting a future that was not done) observe the same
\* outcome: all of them the same port, or all of them an error.  A caller
\* whose client went away observes nothing.
C4_SameOutcome ==
    \A p \in overlap :
        (/\ callers[p[1]].st = "done" /\ callers[p[2]].st = "done"
         /\ callers[p[1]].out # "disconnected" /\ callers[p[2]].out # "disconnected") =>
            /\ callers[p[1]].out = callers[p[2]].out
            /\ callers[p[1]].port = callers[p[2]].port

\* C5: with concurrent_runners_limit = 1, a request for model m2 made while a
\* worker j1 of another model had a live process (j1 is in the preds of the
\* worker j2 the request created) asks j1 to stop, the process of j2 is not alive before the
\* process of j1 has exited, and at the step that completes the request of j2
\* with a port the supervisor's set holds exactly the worker j2.
C5_StopsThenStarts ==
    [][\A j2 \in Insts : \A j1 \in inst'[j2].preds :
          (concurrent_runners_limit = 1 /\ inst'[j1].model # inst'[j2].model) =>
              /\ inst'[j1].asked \/ inst'[j1].phase \in {"finishing", "finished"}
              /\ ~(RunnerIsRunning(inst'[j1]) /\ RunnerIsRunning(inst'[j2]))
              /\ (fut[j2].st = "pending" /\ fut'[j2].st = "port") =>
                     \A n \in Models : threads'[n] # 0 =>
                         (n = inst'[j2].model /\ threads'[n] = j2)]_vars

\* C6: with concurrent_runners_limit > 1 and that many worker threads running,
\* a request_runner_start for a model that has no worker registers and returns
\* a future already completed with the capacity error, creates no worker and
\* stops none (no thread object and no pending future is touched).
C6_CapacityError ==
    [][\A m \in Models :
          (/\ concurrent_runners_limit > 1
           /\ CapacityReached
           /\ threads[m] = 0
           /\ IsRequestStep(m)) =>
              /\ futures'[m] = DoneErr(ErrCapacity)
              /\ inst' = inst
              /\ threads' = threads
              /\ fut' = fut]_vars

\* A request was rejected for capacity: the limit is above 1, that many threads
\* are running and the model without a worker holds the capacity error.
C6_Witness ==
    \E m \in Configured :
        /\ concurrent_runners_limit > 1
        /\ CapacityReached
        /\ threads[m] = 0
        /\ futures[m] = DoneErr(ErrCapacity)

\* C7: a startup request for model m completes with port p only if a worker
\* for m was alive with detected port p between the request and the
\* completion: the future of a started worker is completed by the port_ready
\* signal of a worker of the same model whose process had not exited before the
\* future was created, and a future completed on the spot carries the port of
\* the model's running worker.
C7_PortOfLiveWorker ==
    [][/\ \A i \in Insts :
             (fut[i].st = "pending" /\ fut'[i].st = "port") =>
                 /\ inst[fut'[i].src].model = inst[i].model
                 /\ fut'[i].port = PortOf(fut'[i].src)
                 /\ fut'[i].src \notin fut[i].dead
       /\ \A m \in Models :
             (IsRequestStep(m) /\ futures'[m].kind = "port") =>
                 \E k \in Insts : /\ inst[k].model = m
                                  /\ RunnerIsRunning(inst[k])
                                  /\ inst[k].port = futures'[m].port]_vars

\* C8: when the worker registered for model m is running with a detected port
\* and no startup future of m is pending, request_runner_start(m) registers and
\* returns a future already completed with that port, and neither creates nor
\* stops any worker (no thread object and no other future is touched).
C8_ReadyWorkerReturnsPort ==
    [][\A m \in Models :
          (/\ IsLlamaRunnerRunning(m)
           /\ GetRunnerPort(m) # 0
           /\ ~StartupPending(m)
           /\ IsRequestStep(m)) =>
              /\ futures'[m] = DonePort(GetRunnerPort(m))
              /\ inst' = inst
              /\ threads' = threads
              /\ fut' = fut]_vars

\* A request was answered from a running worker: the model's worker runs with
\* a port, the registered future is completed with that port and the cleanup
\* timer armed by the call is pending.
C8_Witness ==
    \E m \in Configured :
        /\ IsLlamaRunnerRunning(m)
        /\ GetRunnerPort(m) # 0
        /\ futures[m] = DonePort(GetRunnerPort(m))
        /\ timers[m] > 0

\* The exception data err holds every line of the output ring.
Carries(err, ring) ==
    \A n \in 1 .. Len(ring) : \E j \in 1 .. Len(err) : err[j] = ring[n]

\* The head of thread i's queue reports a startup failure of the claim's kind:
\* the process could not be spawned, or it exited before a startup line.
StartupFailureReported(i) ==
    /\ evq[i] # <<>>
    /\ Head(evq[i]).type = "error"
    /\ Head(evq[i]).msg \in {"runtime_not_found", "exited_during_startup"}

\* C9: when the manager handles the failure report of a worker whose process
\* could not be spawned or exited before a startup line, the pending startup
\* future of the model is completed with a startup-failure error, and that
\* error carries the lines of the worker's output ring.
C9_FailureCarriesRing ==
    [][\A i \in Insts :
          (/\ StartupFailureReported(i)
           /\ StartupPending(Head(evq[i]).model)
           /\ OnError(i)) =>
              LET h == futures[Head(evq[i]).model]
              IN /\ fut'[h.id].st = "error"
                 /\ fut'[h.id].err[2] = "errored during startup"
                 /\ Carries(fut'[h.id].err, Head(evq[i]).buf)]_vars

\* ------------------------------------------------------------------------
\* The supervisor and its workers under the Qt event loop: every signal and
\* posted event that is queued for the manager is eventually delivered.
\* ------------------------------------------------------------------------
SupervisorInit ==
    /\ conf \in { Deployment(1, {"m1", "m2"}, MaxInst - 1, MaxLines, 0, "all"),
                  Deployment(2, {"m1", "m2", "m3"}, MaxInst - 1, 0, 0, "start") }
    /\ Constructed

SupervisorNext ==
    \/ \E m \in Configured : RequestOnManagerThread(m)
    \/ \E m \in Configured : StopLlamaRunner(m)
    \/ \E m \in Configured : CleanupCompletedFuture(m)
    \/ \E i \in Insts : ThreadRunBegin(i)
    \/ \E i \in Insts : RunnerSpawn(i)
    \/ \E i \in Insts : RunnerSpawnFails(i)
    \/ \E i \in Insts : ReadNoiseLine(i)
    \/ \E i \in Insts : ReadListeningLine(i)
    \/ \E i \in Insts : ReadMarkerWithoutPort(i)
    \/ \E i \in Insts, rc \in {0, 1} : ProcessExits(i, rc)
    \/ \E i \in Insts : StopCoroutineRuns(i)
    \/ \E i \in Insts : ThreadFinishes(i)
    \/ \E i \in Insts : OnPortReady(i)
    \/ \E i \in Insts : OnError(i)
    \/ \E i \in Insts : OnStopped(i)

\* The Qt event loop of the main thread handles the next queued signal or
\* posted event of some worker thread.
DeliverEvent == \E i \in Insts : OnPortReady(i) \/ OnError(i) \/ OnStopped(i)

EventLoopFairness == WF_vars(DeliverEvent)

FairSpec == SupervisorInit /\ [][SupervisorNext]_vars /\ EventLoopFairness

\* The messages of the errors a worker thread emits when its startup fails.
StartupFailureMsgs == {"runtime_not_found", "exited_during_startup", "no_port"}

\* Worker i failed to start and its report is still queued for the manager.
StartupFailureQueued(i) ==
    \E n \in 1 .. Len(evq[i]) : /\ evq[i][n].type = "error"
                                /\ evq[i][n].msg \in StartupFailureMsgs

\* The startup failure of worker i was delivered to its own request.
StartupFailureDelivered(i) ==
    /\ fut[i].st = "error"
    /\ fut[i].src = i
    /\ fut[i].err \in {ErrErrored(x) : x \in StartupFailureMsgs}

\* Worker i failed to start (reported or not yet).
StartupFailed(i) == StartupFailureQueued(i) \/ StartupFailureDelivered(i)

\* The step creates and registers a new worker thread for model m with a new
\* pending future.
CreatesWorker(m) ==
    \E j \in Insts : /\ inst[j].phase = "unused"
                     /\ inst'[j].phase = "init"
                     /\ inst'[j].model = m
                     /\ threads'[m] = j
                     /\ futures'[m] = Ref(j)
                     /\ fut'[j].st = "pending"

\* Worker thread i is in the supervisor's set.
Registered(i) == inst[i].model \in Models /\ threads[inst[i].model] = i

\* A failed worker that is still in the supervisor's set is eventually removed.
FailedWorkerRemoved ==
    \A i \in Insts : (StartupFailureQueued(i) /\ Registered(i)) ~> ~Registered(i)

ConfigInit ==
    /\ conf \in { [Deployment(1, {"m1"}, MaxInst - 1, 0, 0, "start")
                      EXCEPT !.cfg = [@ EXCEPT !["m1"] = e]] : e \in ModelConfigs }
    /\ Constructed

ConfigNext ==
    \/ \E m \in Configured : RequestOnManagerThread(m)
    \/ \E i \in Insts : ThreadRunBegin(i)
    \/ \E i \in Insts : RunnerSpawn(i)
    \/ \E i \in Insts : RunnerSpawnFails(i)
    \/ \E i \in Insts : ReadListeningLine(i)
    \/ \E i \in Insts, rc \in {0, 1} : ProcessExits(i, rc)
    \/ \E i \in Insts : ThreadFinishes(i)
    \/ \E i \in Insts : OnPortReady(i)
    \/ \E i \in Insts : OnError(i)
    \/ \E i \in Insts : OnStopped(i)

ConfigSpec == ConfigInit /\ [][ConfigNext]_vars

\* The runtime entry of model m has a missing or empty command, or its
\* model_path is missing or names no file on disk.
BadConfig(m) ==
    LET c == conf.cfg[m]
    IN \/ c.entry \in {"str", "dict"} /\ c.cmd = ""
       \/ c.path \in {"none", "nofile"}

\* C11: request_runner_start for a model whose runtime entry has a missing or
\* empty command, or whose model_path is missing or not on disk, completes
\* with a configuration error and creates no worker thread.
C11_BadConfigRejected ==
    [][\A m \in Models :
          (BadConfig(m) /\ IsRequestStep(m)) =>
              /\ futures'[m].kind = "error"
              /\ futures'[m].err \in {ErrConfig(ConfigCheck(m))}
              /\ \A j \in Insts : inst[j].phase = "unused" => inst'[j].phase = "unused"]_vars

\* ------------------------------------------------------------------------
\* Shutdown: stop_all_llama_runners
\* ------------------------------------------------------------------------
\* Two models under a limit of two, so that two workers run side by side;
\* the manager's thread starts workers and then calls stop_all_llama_runners
\* once, at any moment.
ShutdownInit ==
    /\ conf = Deployment(2, {"m1", "m2"}, MaxInst - 1, 0, 0, "shutdown")
    /\ Constructed

ShutdownNext ==
    \/ \E m \in Configured : RequestOnManagerThread(m)
    \/ \E m \in Configured : CleanupCompletedFuture(m)
    \/ StopAllBegin
    \/ StopAllReturns
    \/ \E i \in Insts : ThreadRunBegin(i)
    \/ \E i \in Insts : RunnerSpawn(i)
    \/ \E i \in Insts : RunnerSpawnFails(i)
    \/ \E i \in Insts : ReadListeningLine(i)
    \/ \E i \in Insts, rc \in {0, 1} : ProcessExits(i, rc)
    \/ \E i \in Insts : StopCoroutineRuns(i)
    \/ \E i \in Insts : ThreadFinishes(i)
    \/ \E i \in Insts : OnPortReady(i)
    \/ \E i \in Insts : OnError(i)
    \/ \E i \in Insts : OnStopped(i)

ShutdownSpec == ShutdownInit /\ [][ShutdownNext]_vars

\* The step in which stop_all_llama_runners returns to its caller.
StopAllReturned == shutdown.st = "waiting" /\ shutdown'.st = "returned"

\* C12: stop_all_llama_runners returns only after every worker that was
\* running when it was called has exited (its process is gone and its thread
\* is over), and when it returns llama_runner_threads holds no worker.
C12_StopAllEmptiesSet ==
    [][StopAllReturned =>
          /\ \A i \in shutdown.waited : ~IsRunning(inst'[i]) /\ ~RunnerIsRunning(inst'[i])
          /\ \A m \in Models : threads'[m] = 0]_vars

\* C13: when stop_all_llama_runners returns, every startup request that was
\* outstanding when it was called has completed with an error (whatever its
\* message); none of them is still pending.
C13_PendingRequestsFailed ==
    [][StopAllReturned => \A i \in shutdown.pend : fut'[i].st = "error"]_vars

\* Caller d awaits, not yet resumed, the future that caller c awaits.
WaitsWith(c, d) ==
    /\ d # c
    /\ callers[d].st = "waiting"
    /\ callers[d].h = callers[c].h

\* The step in which the client of the waiting caller c disconnects.
Disconnects(c) == callers[c].st = "waiting" /\ callers'[c].out = "disconnected"

\* C14: when a caller disconnects while another caller awaits the same
\* pending startup request, the request is not cancelled by it: it stays
\* pending, and the worker it started is left as it is.
C14_DisconnectKeepsRequest ==
    [][\A c \in Callers, d \in Callers :
          (Disconnects(c) /\ WaitsWith(c, d) /\ fut[callers[c].h.id].st = "pending") =>
              /\ fut'[callers[c].h.id].st = "pending"
              /\ inst' = inst]_vars

\* ------------------------------------------------------------------------
\* Stopping one worker
\* ------------------------------------------------------------------------
\* One worker thread from QThread.start() to the end of run(), with up to
\* MaxStops calls of stop() at any moment.
WorkerInit ==
    /\ conf = Deployment(1, {"m1"}, 0, 0, 0, "none")
    /\ threads = [m \in Models |-> 0]
    /\ futures = [m \in Models |-> NoFuture]
    /\ inst = [i \in Insts |-> UnusedInst]
    /\ fut = [i \in Insts |-> UnusedFuture]
    /\ evq = [i \in Insts |-> <<>>]
    /\ timers = [m \in Models |-> 0]
    /\ cache = [px \in Proxies |-> [m \in Models |-> NoFuture]]
    /\ callers = [c \in Callers |-> IdleCaller]
    /\ overlap = {}
    /\ shutdown = NoShutdown
    /\ wk \in {FreshWorker(d) : d \in BOOLEAN}
    /\ body = NoBody
    /\ bridge = NoBridge
    /\ AuxAbsent

WorkerNext ==
    \/ WkStop
    \/ WkRunBegin
    \/ WkSpawn
    \/ WkListening
    \/ \E rc \in {0, 1} : WkProcessEnds(rc)
    \/ WkExitSeen
    \/ \E k \in 1 .. MaxStops : WkCoBegins(k)
    \/ \E k \in 1 .. MaxStops : WkCoEnds(k)
    \/ \E k \in 1 .. MaxStops : WkCoTimesOut(k)
    \/ \E k \in 1 .. MaxStops : WkCoKillWaitExpires(k)
    \/ WkStartupFails
    \/ WkWaitReturns
    \/ WkThreadFinishes

WorkerSpec == WorkerInit /\ [][WorkerNext]_vars

Emitted(i) ==
    IF Len(evq'[i]) > Len(evq[i]) THEN SubSeq(evq'[i], Len(evq[i]) + 1, Len(evq'[i]))
    ELSE <<>>

\* The number of error reports (error signal or RunnerErrorEvent) among them.
ErrorsEmitted(i) == Cardinality({k \in DOMAIN Emitted(i) : Emitted(i)[k].type = "error"})

\* The process of thread i exits in the step.
ExitStep(i) == inst[i].proc = "alive" /\ inst'[i].proc = "exited"

\* C16: when the process of a worker exits after stop() was called on the
\* worker (during startup or after it was ready), the thread reports no
\* error; when it exits with a non-zero code and stop() was never called, the
\* thread reports exactly one error.
C16_StopIsNoError ==
    [][\A i \in Insts :
          /\ (inst[i].asked /\ ExitStep(i)
                /\ (StopCoroutineRuns(i) \/ ProcessExits(i, 0) \/ ProcessExits(i, 1)))
                => ErrorsEmitted(i) = 0
          /\ (~inst[i].asked /\ ProcessExits(i, 1)) => ErrorsEmitted(i) = 1]_vars

\* ------------------------------------------------------------------------
\* Forwarding a request body
\* ------------------------------------------------------------------------
\* One gateway request with any body of at most MaxFields members, handled by
\* any of the three forwarding functions, for a runtime with any supports_tools.
ToolsInit ==
    /\ conf = Deployment(1, {"m1"}, 0, 0, 0, "none")
    /\ threads = [m \in Models |-> 0]
    /\ futures = [m \in Models |-> NoFuture]
    /\ inst = [i \in Insts |-> UnusedInst]
    /\ fut = [i \in Insts |-> UnusedFuture]
    /\ evq = [i \in Insts |-> <<>>]
    /\ timers = [m \in Models |-> 0]
    /\ cache = [px \in Proxies |-> [m \in Models |-> NoFuture]]
    /\ callers = [c \in Callers |-> IdleCaller]
    /\ overlap = {}
    /\ shutdown = NoShutdown
    /\ wk = NoWorker
    /\ body \in {Received(via, sup, raw) :
                    via \in {"ollama", "lmstudio_fetch", "lmstudio_stream"},
                    sup \in {"true", "false", "absent"}, raw \in JsonTexts}
    /\ bridge = NoBridge
    /\ AuxAbsent

ToolsNext ==
    \/ RejectNoModel
    \/ OllamaForward
    \/ LMStudioForward

ToolsSpec == ToolsInit /\ [][ToolsNext]_vars

\* The object a JSON parser makes of text t: its keys, each with its value.
ObjectOf(t) == [key \in KeysOf(t) |-> ValueOf(t, key)]

\* C17: the body forwarded for a runtime with supports_tools false has
\* neither tools nor tool_choice and every other member of the received body
\* with its value; for supports_tools true or absent it is the received body.
C17_ToolsStripped ==
    body.stage = "forwarded" =>
        LET got == ObjectOf(body.sent)
            orig == ObjectOf(body.raw)
            rest == DOMAIN orig \ {"tools", "tool_choice"}
        IN IF body.supports = "false"
              THEN /\ DOMAIN got = rest
                   /\ \A key \in rest : got[key] = orig[key]
              ELSE got = orig

\* A body with tools, tool_choice and the model was forwarded through the
\* LM Studio gateway for a runtime without tool support.
C17_Witness ==
    /\ body.stage = "forwarded"
    /\ body.via = "lmstudio_stream"
    /\ body.supports = "false"
    /\ KeysOf(body.raw) = {"model", "tools", "tool_choice"}
    /\ KeysOf(body.sent) = {"model"}

\* ------------------------------------------------------------------------
\* Translating one streamed response
\* ------------------------------------------------------------------------
\* One streamed response of the worker, any sequence of at most MaxEvents
\* blocks in any split into network chunks, translated for /api/chat or
\* /api/generate.
BridgeInit ==
    /\ conf = Deployment(1, {"m1"}, 0, 0, 0, "none")
    /\ threads = [m \in Models |-> 0]
    /\ futures = [m \in Models |-> NoFuture]
    /\ inst = [i \in Insts |-> UnusedInst]
    /\ fut = [i \in Insts |-> UnusedFuture]
    /\ evq = [i \in Insts |-> <<>>]
    /\ timers = [m \in Models |-> 0]
    /\ cache = [px \in Proxies |-> [m \in Models |-> NoFuture]]
    /\ callers = [c \in Callers |-> IdleCaller]
    /\ overlap = {}
    /\ shutdown = NoShutdown
    /\ wk = NoWorker
    /\ body = NoBody
    /\ bridge \in {OpenBridge(kind, u) : kind \in {"chat", "generate"}, u \in Upstreams}
    /\ AuxAbsent

BridgeNext ==
    \/ BridgeReadsBlock
    \/ BridgeUpstreamEnds

BridgeSpec == BridgeInit /\ [][BridgeNext]_vars

\* All deltas of the upstream: those read and those still to come.
AllDeltas == bridge.recv \o Deltas(bridge.up)

\* At least one delta, and only the last one carries finish_reason "stop".
OnlyLastStops(ds) ==
    /\ Len(ds) >= 1
    /\ \A k \in DOMAIN ds : ds[k].finish = "stop" <=> k = Len(ds)

\* C18: for an upstream of n >= 1 deltas of which only the last carries
\* finish_reason "stop": after k < n deltas were read k - 1 objects have been
\* yielded (the k-th is held back), after all n were read n objects; object j
\* has the content of delta j, the first n - 1 have done false and the last
\* has done true and done_reason "stop".  For "He", "llo", stop the last
\* object has eval_count "2".
C18_HoldsOneChunkBack ==
    (bridge.st # "none" /\ OnlyLastStops(AllDeltas)) =>
        LET n == Len(AllDeltas)
            k == Len(bridge.recv)
            out == bridge.out
        IN /\ Len(out) = (IF k = n THEN n ELSE IF k = 0 THEN 0 ELSE k - 1)
           /\ \A j \in DOMAIN out :
                 /\ out[j].content = AllDeltas[j].content
                 /\ out[j].done = (IF j = n THEN "true" ELSE "false")
                 /\ j = n => out[j].done_reason = "stop"
           /\ (k = n /\ [j \in 1 .. n |-> AllDeltas[j].content] = <<"He", "llo", "">>)
                 => out[n].eval_count = "2"

\* The deltas "He", "llo" and an empty one with finish_reason "stop" were
\* translated into three objects and the upstream has ended.
C18_Witness ==
    /\ bridge.st = "ended"
    /\ bridge.recv = <<Delta("He", "none"), Delta("llo", "none"), Delta("", "stop")>>
    /\ Len(bridge.out) = 3
    /\ bridge.out[3].done = "true"

\* The positions of the yielded objects that have done true.
DoneObjects == {j \in DOMAIN bridge.out : bridge.out[j].done = "true"}

\* C19: whatever the upstream sends (a delta with finish_reason "stop", no
\* stop at all, no delta at all, further deltas after the stop), no object is
\* yielded after an object with done true, and when the upstream has ended
\* exactly one object with done true has been yielded.
C19_ExactlyOneDone ==
    bridge.st # "none" =>
        /\ \A j \in DoneObjects : j = Len(bridge.out)
        /\ bridge.st = "ended" => Cardinality(DoneObjects) = 1

\* C20: the eval_count of the final object (done true) is the number of
\* deltas with non-empty content received in the stream, the delta that
\* carries the stop and the last delta before the end included.
NonEmpty(ds) == Cardinality({k \in DOMAIN ds : ds[k].content # ""})

C20_EvalCountCountsAll ==
    bridge.st = "ended" =>
        \A j \in DoneObjects : bridge.out[j].eval_count = ToString(NonEmpty(bridge.recv))

\* ---------------------------------------------------------------------
\* The handling of one non-streaming request by a gateway: the OpenAI
\* compatible gateway (lmstudio_proxy_thread.py) answers through
\* _v1_chat_completions_handler and _fetch_non_streaming_v1_response, the
\* Ollama gateway (ollama_proxy_thread.py) through chat_completion and
\* _dynamic_route_runner_request_generator.  The supervisor and the worker
\* are the environment here: the startup future and the forwarded request
\* end with one of the outcomes the code distinguishes.

\* The supervisor, the fine-grained worker, the request body and the stream
\* bridge at rest, for the specifications of the other sub-systems.
Quiescent ==
    /\ conf = Deployment(1, {"m1"}, 0, 0, 0, "none")
    /\ threads = [m \in Models |-> 0]
    /\ futures = [m \in Models |-> NoFuture]
    /\ inst = [i \in Insts |-> UnusedInst]
    /\ fut = [i \in Insts |-> UnusedFuture]
    /\ evq = [i \in Insts |-> <<>>]
    /\ timers = [m \in Models |-> 0]
    /\ cache = [px \in Proxies |-> [m \in Models |-> NoFuture]]
    /\ callers = [c \in Callers |-> IdleCaller]
    /\ overlap = {}
    /\ shutdown = NoShutdown
    /\ wk = NoWorker
    /\ body = NoBody
    /\ bridge = NoBridge

\* The keys of all_models_config in the order of the configuration file.
ModelOrder == <<"m1", "m2">>

all_models_config == {ModelOrder[k] : k \in DOMAIN ModelOrder}

\* What get_model_lmstudio_format publishes as the id of a model; "" stands
\* for a model without model_path, which gets no id.  The ids may collide
\* with each other (model_id overrides, one file under two names) and with
\* the internal name of another model.
PublishedIds == [all_models_config -> {"", "ext1", "m2"}]

\* gguf_metadata.get_model_name_to_id_mapping: the models that have an id.
get_model_name_to_id_mapping(ids) == {m \in all_models_config : ids[m] # ""}

\* {v: k for k, v in mapping.items()}.get(id): a later model of the
\* configuration overwrites an earlier one with the same id; "" is None.
RECURSIVE IdLookup(_, _, _)
IdLookup(ids, id, k) ==
    IF k = 0 THEN ""
    ELSE IF ModelOrder[k] \in get_model_name_to_id_mapping(ids) /\ ids[ModelOrder[k]] = id
         THEN ModelOrder[k]
         ELSE IdLookup(ids, id, k - 1)

id_to_internal_name_mapping(ids, id) == IdLookup(ids, id, Len(ModelOrder))

\* The internal model name the OpenAI gateway resolves the model field to:
\* the id mapping first, the internal names as fallback, "" when unknown.
LMStudioResolve(ids, model) ==
    IF id_to_internal_name_mapping(ids, model) # ""
    THEN id_to_internal_name_mapping(ids, model)
    ELSE IF model \in all_models_config THEN model ELSE ""

\* The Ollama gateway takes the model field as the internal name.
OllamaResolve(model) == IF model \in all_models_config THEN model ELSE ""

\* The status code the /v1 handlers derive from the type of an error payload.
StatusOfErrorType(type) ==
    IF type = "invalid_request_error" THEN 400
    ELSE IF type \in {"runner_startup_error", "runner_communication_error"} THEN 503
    ELSE 500

\* A request as it arrives: the gateway, the configured api_key ("" is
\* null), the bearer token of the Authorization header ("" is no header),
\* whether the body is JSON, the model field ("" is absent), and what the
\* configuration says about the runtime of the models.
Arrived(gateway, ids, api_key, auth, json, model, rt) ==
    [st |-> "received", gateway |-> gateway, ids |-> ids, api_key |-> api_key,
     auth |-> auth, json |-> json, model |-> model, rt |-> rt,
     target |-> "", starts |-> 0, reached |-> FALSE,
     cause |-> "none", status |-> 0, type |-> "none"]

\* The /v1 handler returns JSONResponse(content=error payload, status_code).
LMStudioError(g, cause, type) ==
    [g EXCEPT !.st = "replied", !.cause = cause, !.type = type,
              !.status = StatusOfErrorType(type)]

\* The Ollama generator yields b'data: {"error": ...}\n\n' and stops; the
\* non-streaming handler fails to json.loads that chunk and raises
\* HTTPException(500), which its own "except Exception" turns into
\* HTTPException(500, "Internal Server Error processing chat request").
OllamaError(g, cause) ==
    [g EXCEPT !.st = "replied", !.cause = cause, !.type = "http_exception",
              !.status = 500]

GwError(g, cause, type) ==
    IF g.gateway = "lmstudio" THEN LMStudioError(g, cause, type) ELSE OllamaError(g, cause)

\* port = get_runner_port_callback(model): a known port goes on to the
\* forwarding; otherwise the request waits for the startup future, which is
\* requested from the supervisor unless a pending one is cached.
GwGate(g, target, running, cached) ==
    IF running
    THEN [g EXCEPT !.st = "forwarding", !.target = target]
    ELSE [g EXCEPT !.st = "starting", !.target = target,
                   !.starts = IF cached THEN @ ELSE @ + 1]

\* The handler from the arrival of the request to its first await on the
\* supervisor or the worker: body parsing, model resolution, the runtime's
\* configuration, the port look-up.  The Authorization header is not read.
GwHandle ==
    /\ gw.st = "received"
    /\ \E running \in BOOLEAN, cached \in BOOLEAN :
        LET target == IF gw.gateway = "lmstudio"
                      THEN LMStudioResolve(gw.ids, gw.model)
                      ELSE OllamaResolve(gw.model)
        IN gw' =
            IF gw.json = "bad"
            THEN [gw EXCEPT !.st = "replied", !.cause = "invalid", !.status = 400,
                            !.type = IF gw.gateway = "lmstudio"
                                     THEN "invalid_request_error" ELSE "http_exception"]
            ELSE IF gw.model = "" \/ target = ""
            THEN GwError(gw, "invalid", "invalid_request_error")
            ELSE IF gw.rt # "ok"
            THEN GwError(gw, "configuration", "configuration_error")
            ELSE GwGate(gw, target, running, cached)
    /\ UNCHANGED <<conf, managerVars, wk, body, bridge, lp, launch, rd>>

\* await asyncio.wait_for(future, 240) ends: with the port, with the
\* exception the supervisor set (startup failure, capacity exceeded), or
\* with asyncio.TimeoutError.
GwStartupEnds ==
    /\ gw.st = "starting"
    /\ \E outcome \in {"ready", "startup_failure", "capacity", "startup_timeout"} :
        gw' = IF outcome = "ready"
              THEN [gw EXCEPT !.st = "forwarding"]
              ELSE GwError(gw, outcome, "runner_startup_error")
    /\ UNCHANGED <<conf, managerVars, wk, body, bridge, lp, launch, rd>>

\* The except clause of the forwarding that catches what the request to the
\* worker raised, as the type of the error payload: httpx.ConnectError and
\* httpx.ReadTimeout are httpx.RequestError, asyncio.TimeoutError has its
\* own clause, anything else is caught by "except Exception".
ForwardErrorType(raised) ==
    IF raised \in {"httpx.ConnectError", "httpx.ReadTimeout"} THEN "runner_communication_error"
    ELSE IF raised = "asyncio.TimeoutError" THEN "request_timeout_error"
    ELSE "internal_error"

\* The spec's kind of the failure that an exception of the forwarding is.
ForwardCause(raised) ==
    IF raised = "httpx.ConnectError" THEN "communication"
    ELSE IF raised \in {"httpx.ReadTimeout", "asyncio.TimeoutError"} THEN "read_timeout"
    ELSE "internal"

\* client.stream(...) to the worker ends: with the worker's reply, or with
\* an exception.  Only a refused connection leaves the worker unreached.
GwForwardEnds ==
    /\ gw.st = "forwarding"
    /\ \E raised \in {"nothing", "httpx.ConnectError", "httpx.ReadTimeout",
                      "asyncio.TimeoutError", "Exception"} :
        gw' = IF raised = "nothing"
              THEN [gw EXCEPT !.st = "replied", !.status = 200, !.reached = TRUE]
              ELSE [GwError(gw, ForwardCause(raised), ForwardErrorType(raised))
                        EXCEPT !.reached = raised # "httpx.ConnectError"]
    /\ UNCHANGED <<conf, managerVars, wk, body, bridge, lp, launch, rd>>

RequestInit ==
    /\ Quiescent
    /\ gw \in {Arrived(gateway, ids, api_key, auth, json, model, rt) :
                 gateway \in {"lmstudio", "ollama"}, ids \in PublishedIds,
                 api_key \in {"", "k1"}, auth \in {"", "k1", "k2"},
                 json \in {"ok", "bad"}, model \in {"", "ext1", "m1", "m2", "zzz"},
                 rt \in {"ok", "unset", "unknown"}}
    /\ lp = Absent /\ launch = Absent /\ rd = Absent

RequestNext ==
    \/ GwHandle
    \/ GwStartupEnds
    \/ GwForwardEnds

RequestSpec == RequestInit /\ [][RequestNext]_vars

\* The status class the error kinds are to be answered with.
ExpectedStatus(cause) ==
    IF cause = "invalid" THEN 400
    ELSE IF cause \in {"startup_failure", "capacity", "startup_timeout", "communication"} THEN 503
    ELSE IF cause = "read_timeout" THEN 504
    ELSE 500

\* C21: every failed non-streaming request to the OpenAI gateway is answered
\* with the status of its error kind: invalid request 400; startup failure,
\* capacity exceeded and startup timeout 503 with type runner_startup_error;
\* worker communication error 503; worker read timeout 504 with type
\* request_timeout_error; configuration and internal errors 500.
C21_StatusOfErrorKind ==
    (gw.st = "replied" /\ gw.gateway = "lmstudio" /\ gw.cause # "none") =>
        /\ gw.status = ExpectedStatus(gw.cause)
        /\ gw.cause \in {"startup_failure", "capacity", "startup_timeout"}
              => gw.type = "runner_startup_error"
        /\ gw.cause = "read_timeout" => gw.type = "request_timeout_error"

\* C22: when the api_key is non-null, a request to the OpenAI gateway that
\* lacks the matching bearer token has caused no startup request and has not
\* reached a worker, and it is answered 401.
C22_UnauthenticatedRejected ==
    (gw.st # "absent" /\ gw.gateway = "lmstudio" /\ gw.api_key # "" /\ gw.auth # gw.api_key) =>
        /\ gw.starts = 0
        /\ ~gw.reached
        /\ gw.st \notin {"starting", "forwarding"}
        /\ gw.st = "replied" => gw.status = 401

\* The names a gateway publishes in its listing and accepts in the model
\* field: the OpenAI gateway the ids (with the internal names as fallback),
\* the Ollama gateway the internal names.
PublishedFor(g, m) ==
    g.gateway = "lmstudio" /\ g.ids[m] # "" /\ g.ids[m] = g.model

Recognized(g) == \E m \in all_models_config : PublishedFor(g, m)

Routed(g) == g.target # ""

\* C23: a request whose model field is absent, or names neither a published
\* external id nor an internal model name, is rejected as an invalid request
\* (400) and causes no startup request and reaches no worker; a recognized
\* external id is routed to a model it was published for, and an
\* unrecognized id that equals an internal model name is routed to that model.
C23_ModelResolution ==
    (gw.st # "absent" /\ gw.st # "received" /\ gw.json = "ok") =>
        /\ (gw.model = "" \/ (~Recognized(gw) /\ gw.model \notin all_models_config)) =>
              /\ gw.st = "replied" /\ gw.cause = "invalid" /\ gw.status = 400
              /\ gw.starts = 0 /\ ~gw.reached /\ ~Routed(gw)
        /\ (Recognized(gw) /\ gw.rt = "ok") =>
              Routed(gw) /\ PublishedFor(gw, gw.target)
        /\ (gw.model # "" /\ ~Recognized(gw) /\ gw.model \in all_models_config /\ gw.rt = "ok") =>
              gw.target = gw.model

\* ---------------------------------------------------------------------
\* LlamaLogParser (log_parser.py): the status derived from the worker's log.
\* A log line is modelled by the pattern it carries, the token count the
\* pattern captures and what else distinguishes its text (the task id);
\* two lines have the same text exactly when they are the same record.
\* The milliseconds of the timing lines and the speeds derived from them are
\* left out: the statuses carry the token counts only.

\* The longest log given to the parser at once.
MaxLog == 4

LogLine(kind, n, task) == [kind |-> kind, n |-> n, task |-> task]

\* "slot launch_slot_: id 0 | task <t> | processing task"
ProcessingTask(t) == LogLine("processing_task", 0, t)
\* "slot update_slots: id 0 | task <t> | new prompt, ..., n_prompt_tokens = <n>"
NewPrompt(n, t) == LogLine("new_prompt", n, t)
\* "... prompt processing progress, n_past = .., n_tokens = <n>, progress = .."
PromptProgress(n, t) == LogLine("prompt_progress", n, t)
\* "... prompt done, n_past = .., n_tokens = <n>"
PromptDone(n, t) == LogLine("prompt_done", n, t)
\* "prompt eval time = .. ms / <n> tokens", at the start of the line
PromptEvalTime(n) == LogLine("prompt_eval_time", n, 0)
\* the same pattern after a prefix: "print_timing: prompt eval time = .. ms / <n> tokens"
PrefixedPromptEvalTime(n) == LogLine("prefixed_prompt_eval_time", n, 0)
\* "eval time = .. ms / <n> tokens"
EvalTime(n) == LogLine("eval_time", n, 0)
\* "srv update_slots: all slots are idle"
AllIdle == LogLine("all_idle", 0, 0)
\* any line without a pattern, e.g. "total time = .. ms / .. tokens"
OtherLine == LogLine("other", 0, 0)

LogLines ==
    {ProcessingTask(1), ProcessingTask(2), NewPrompt(3, 1), PromptProgress(3, 1),
     PromptDone(3, 1), PromptEvalTime(3), PromptEvalTime(4), PrefixedPromptEvalTime(3),
     EvalTime(5), EvalTime(6), AllIdle, OtherLine}

\* 'processing task' in line or 'new prompt' in line
IsTaskLine(line) == line.kind \in {"processing_task", "new_prompt"}

\* 'prompt eval time' in line, where patterns['prompt_eval_time'] matches
HasPromptEvalTime(line) == line.kind \in {"prompt_eval_time", "prefixed_prompt_eval_time"}

\* ModelStatusInfo; 0 stands for a count that is None.
ModelStatusInfo(status, prompt_tokens, generated_tokens) ==
    [status |-> status, prompt_tokens |-> prompt_tokens, generated_tokens |-> generated_tokens]

IdleStatus == ModelStatusInfo("Idle", 0, 0)

\* self.pending_timing_info; 0 stands for a key that is missing.
NoTiming == [prompt_tokens |-> 0, generated_tokens |-> 0]

\* What parse_log_line does on COMPLETED with a 'processing task' or
\* 'new prompt' line without the transition of lines 155-168.
StaysCompleted(line, current_status, pending) ==
    [status |-> current_status, pending |-> pending]

\* Lines 155-168: a new task or prompt while COMPLETED.
NewTaskWhileCompleted(line, current_status, pending) ==
    [status |-> ModelStatusInfo("Starting", 0, 0), pending |-> NoTiming]

\* LlamaLogParser.parse_log_line: the returned status and the parser's
\* pending_timing_info after the call.
parse_log_line(line, current_status, pending) ==
    IF line.kind = "new_prompt"
    THEN [status |-> ModelStatusInfo("Starting", line.n, 0), pending |-> NoTiming]
    ELSE IF line.kind = "prompt_progress"
    THEN [status |-> ModelStatusInfo("Processing prompt", line.n, 0), pending |-> pending]
    ELSE IF line.kind = "prompt_done"
    THEN [status |-> ModelStatusInfo("Generating response", line.n, 0), pending |-> pending]
    ELSE
        LET timing == IF HasPromptEvalTime(line)
                      THEN [pending EXCEPT !.prompt_tokens = line.n]
                      ELSE IF line.kind = "eval_time"
                      THEN [pending EXCEPT !.generated_tokens = line.n]
                      ELSE pending
        IN IF timing.prompt_tokens # 0 /\ timing.generated_tokens # 0
           THEN [status |-> ModelStatusInfo("Completed", timing.prompt_tokens,
                                            timing.generated_tokens),
                 pending |-> NoTiming]
           ELSE IF line.kind = "all_idle"
           THEN [status |-> IdleStatus, pending |-> NoTiming]
           ELSE IF line.kind = "processing_task" /\ current_status.status = "Idle"
           THEN [status |-> ModelStatusInfo("Starting", 0, 0), pending |-> NoTiming]
           ELSE IF current_status.status = "Completed" /\ IsTaskLine(line)
           THEN NewTaskWhileCompleted(line, current_status, timing)
           ELSE [status |-> current_status, pending |-> timing]

\* Feeding lines[1..k] one at a time through parse_log_line, starting from
\* no status (IDLE) and no pending timing.
RECURSIVE LineByLine(_, _)
LineByLine(lines, k) ==
    IF k = 0 THEN [status |-> IdleStatus, pending |-> NoTiming]
    ELSE LET before == LineByLine(lines, k - 1)
         IN parse_log_line(lines[k], before.status, before.pending)

Max(S) == CHOOSE x \in S : \A y \in S : y <= x
Min(S) == CHOOSE x \in S : \A y \in S : x <= y

\* The lines of the joined log in which patterns['prompt_eval_time'] matches.
prompt_eval_matches(lines) == {k \in DOMAIN lines : HasPromptEvalTime(lines[k])}

\* The lines in which patterns['eval_time'] matches (it also matches inside a
\* prompt eval line) and that do not start with 'prompt eval time'.
filtered_eval_matches(lines) ==
    {k \in DOMAIN lines : lines[k].kind \in {"eval_time", "prefixed_prompt_eval_time"}}

\* full_log.find(line): the first place where the text of the line occurs.
Find(lines, line) == Min({k \in DOMAIN lines : lines[k] = line})

last_timing_pos(lines) ==
    LET last_prompt_eval == Max(prompt_eval_matches(lines))
        last_eval == Max(filtered_eval_matches(lines))
    IN IF last_prompt_eval > last_eval THEN last_prompt_eval ELSE last_eval

\* A task line whose text is found in the log after the last timing match.
has_newer_tasks(lines) ==
    \E k \in DOMAIN lines :
        IsTaskLine(lines[k]) /\ Find(lines, lines[k]) > last_timing_pos(lines)

\* parse_multiple_lines returns COMPLETED from the last timing matches
\* without looking at the lines one by one.
TimingShortcut(lines) ==
    /\ prompt_eval_matches(lines) # {}
    /\ filtered_eval_matches(lines) # {}
    /\ ~has_newer_tasks(lines)

\* parse_multiple_lines without the search for newer tasks: timing matches
\* anywhere in the log make it COMPLETED.
TimingAlwaysWins(lines) ==
    IF prompt_eval_matches(lines) # {} /\ filtered_eval_matches(lines) # {}
    THEN ModelStatusInfo("Completed", lines[Max(prompt_eval_matches(lines))].n,
                         lines[Max(filtered_eval_matches(lines))].n)
    ELSE LineByLine(lines, Len(lines)).status

\* LlamaLogParser.parse_multiple_lines
parse_multiple_lines(lines) ==
    IF TimingShortcut(lines)
    THEN ModelStatusInfo("Completed", lines[Max(prompt_eval_matches(lines))].n,
                         lines[Max(filtered_eval_matches(lines))].n)
    ELSE LineByLine(lines, Len(lines)).status

RECURSIVE SeqsUpTo(_, _)
SeqsUpTo(S, n) ==
    IF n = 0 THEN {<<>>}
    ELSE LET shorter == SeqsUpTo(S, n - 1)
         IN shorter \cup {Append(s, x) : s \in {t \in shorter : Len(t) = n - 1}, x \in S}

\* No snapshot of the log was parsed yet.
NoSnapshot == ModelStatusInfo("none", 0, 0)

\* A parser that is about to be given a log: line by line (fed counts the
\* lines given so far, hist the statuses returned) and, by a second parser,
\* as one snapshot.
\* Besides the parser's state the record keeps where its data came from:
\* psrc and esrc are the places of the lines the pending counts were taken
\* from, csrc those of the counts of the last Completed status, since the
\* place of the last task line that arrived while the status was Completed.
\* task, pos and noise belong to the worker that writes the log.
NewParser(lines) ==
    [st |-> "parsing", lines |-> lines, fed |-> 0, status |-> IdleStatus,
     pending |-> NoTiming, hist |-> <<>>, snap |-> NoSnapshot,
     psrc |-> 0, esrc |-> 0, csrc |-> <<0, 0>>, since |-> 0,
     task |-> 0, pos |-> 0, noise |-> 0]

\* status = parser.parse_log_line(line, status): the parser after the call.
Fed(p, line) ==
    LET r == parse_log_line(line, p.status, p.pending)
        k == p.fed + 1
        ps == IF HasPromptEvalTime(line) THEN k ELSE p.psrc
        es == IF line.kind = "eval_time" THEN k ELSE p.esrc
        completes == /\ HasPromptEvalTime(line) \/ line.kind = "eval_time"
                     /\ r.pending = NoTiming
    IN [p EXCEPT !.fed = k, !.status = r.status, !.pending = r.pending,
                 !.hist = Append(@, r.status.status),
                 !.psrc = IF r.pending.prompt_tokens = 0 THEN 0 ELSE ps,
                 !.esrc = IF r.pending.generated_tokens = 0 THEN 0 ELSE es,
                 !.csrc = IF completes THEN <<ps, es>> ELSE @,
                 !.since = IF p.status.status = "Completed" /\ IsTaskLine(line) THEN k ELSE @]

\* status = parser.parse_log_line(line, status) for the next line of the log
LpFeed ==
    /\ lp.st = "parsing"
    /\ lp.fed < Len(lp.lines)
    /\ lp' = Fed(lp, lp.lines[lp.fed + 1])
    /\ UNCHANGED <<conf, managerVars, wk, body, bridge, gw, launch, rd>>

\* status_info = LlamaLogParser().parse_multiple_lines(logs) on the whole log
LpSnapshot ==
    /\ lp.st = "parsing"
    /\ lp.snap = NoSnapshot
    /\ lp' = [lp EXCEPT !.snap = parse_multiple_lines(lp.lines)]
    /\ UNCHANGED <<conf, managerVars, wk, body, bridge, gw, launch, rd>>

ParserInit ==
    /\ Quiescent
    /\ lp \in {NewParser(lines) : lines \in SeqsUpTo(LogLines, MaxLog)}
    /\ gw = Absent /\ launch = Absent /\ rd = Absent

ParserNext ==
    \/ LpFeed
    \/ LpSnapshot

ParserSpec == ParserInit /\ [][ParserNext]_vars

\* The whole log was fed line by line and parsed as one snapshot.
BothParsed == lp.st = "parsing" /\ lp.fed = Len(lp.lines) /\ lp.snap # NoSnapshot

PromptEvalAt(lines) ==
    {k \in DOMAIN lines : lines[k].kind \in {"prompt_eval_time", "prefixed_prompt_eval_time"}}

EvalAt(lines) ==
    {k \in DOMAIN lines : lines[k].kind \in {"eval_time", "prefixed_prompt_eval_time"}}

\* Both kinds of timing match occur, and no task line has the first
\* occurrence of its text after the last of them.
TimingWins(lines) ==
    /\ PromptEvalAt(lines) # {} /\ EvalAt(lines) # {}
    /\ \A k \in DOMAIN lines :
          IsTaskLine(lines[k]) =>
              \E j \in 1..k, t \in PromptEvalAt(lines) \cup EvalAt(lines) :
                  lines[j] = lines[k] /\ j <= t

TaskAfterLastTiming(lines) ==
    /\ PromptEvalAt(lines) # {} /\ EvalAt(lines) # {}
    /\ \E k \in DOMAIN lines :
          /\ IsTaskLine(lines[k])
          /\ \A t \in PromptEvalAt(lines) \cup EvalAt(lines) : t < k

\* C25: for every snapshot in which a 'processing task' or 'new prompt' line
\* occurs after the last pair of timing lines, also when a line with the same
\* text occurred earlier in the snapshot, parse_multiple_lines does not
\* return Completed; it returns the phase of the newer task, which is what
\* feeding the lines one at a time ends in.
C25_NewerTaskNotCompleted ==
    (BothParsed /\ TaskAfterLastTiming(lp.lines)) =>
        /\ lp.snap.status # "Completed"
        /\ lp.snap = lp.status

\* ---------------------------------------------------------------------
\* A worker that serves one generation after the other and writes the log of
\* test_status_transitions_between_generations, each line being fed to the
\* parser as it is written.

\* The number of generations the worker serves.
MaxTasks == 2

\* The lines without a pattern the worker writes in between.
MaxNoise == 2

\* The log of generation t: its prompt has 2 + t tokens, its answer 4 + t.
TaskLog(t) ==
    <<ProcessingTask(t), NewPrompt(2 + t, t), PromptProgress(2 + t, t), PromptDone(2 + t, t),
      PromptEvalTime(2 + t), EvalTime(4 + t)>>

Writes(p, line) == [Fed(p, line) EXCEPT !.lines = Append(@, line)]

\* The worker takes the next request: "processing task".
WorkerTakesTask ==
    /\ lp.st = "serving"
    /\ lp.pos = 0
    /\ lp.task < MaxTasks
    /\ lp' = [Writes(lp, TaskLog(lp.task + 1)[1]) EXCEPT !.task = @ + 1, !.pos = 1]
    /\ UNCHANGED <<conf, managerVars, wk, body, bridge, gw, launch, rd>>

\* The worker writes the next line of the generation it is serving; after
\* the timing lines the generation is over.
WorkerLogsProgress ==
    /\ lp.st = "serving"
    /\ lp.pos >= 1
    /\ lp' = [Writes(lp, TaskLog(lp.task)[lp.pos + 1])
                 EXCEPT !.pos = IF lp.pos + 1 = Len(TaskLog(lp.task)) THEN 0 ELSE lp.pos + 1]
    /\ UNCHANGED <<conf, managerVars, wk, body, bridge, gw, launch, rd>>

\* With no request left the worker writes "all slots are idle".
WorkerLogsIdle ==
    /\ lp.st = "serving"
    /\ lp.pos = 0
    /\ lp.lines # <<>> => lp.lines[Len(lp.lines)] # AllIdle
    /\ lp' = Writes(lp, AllIdle)
    /\ UNCHANGED <<conf, managerVars, wk, body, bridge, gw, launch, rd>>

\* The worker writes a line without a pattern ("total time = ..",
\* "kv cache rm ..", a request log).
WorkerLogsOther ==
    /\ lp.st = "serving"
    /\ lp.noise < MaxNoise
    /\ lp' = [Writes(lp, OtherLine) EXCEPT !.noise = @ + 1]
    /\ UNCHANGED <<conf, managerVars, wk, body, bridge, gw, launch, rd>>

GenerationInit ==
    /\ Quiescent
    /\ lp = [NewParser(<<>>) EXCEPT !.st = "serving"]
    /\ gw = Absent /\ launch = Absent /\ rd = Absent

GenerationNext ==
    \/ WorkerTakesTask
    \/ WorkerLogsProgress
    \/ WorkerLogsIdle
    \/ WorkerLogsOther

GenerationSpec == GenerationInit /\ [][GenerationNext]_vars

\* The statuses returned since the line at place k was fed, without
\* repetitions of the same status in a row.
RECURSIVE Phases(_, _)
Phases(hist, k) ==
    IF k > Len(hist) THEN <<>>
    ELSE LET rest == Phases(hist, k + 1)
         IN IF rest # <<>> /\ rest[1] = hist[k] THEN rest ELSE <<hist[k]>> \o rest

\* The place of the "processing task" line of generation t in the log.
TaskStart(t) == CHOOSE k \in DOMAIN lp.lines : lp.lines[k] = ProcessingTask(t)

\* C26: with the lines fed one at a time, a 'processing task' or 'new prompt'
\* line that arrives while the status is Completed moves the status to
\* Starting and leaves no buffered timings; a Completed status carries the
\* prompt and generation token counts of timing lines that arrived after that
\* line, those of the newer generation; and the second generation passes
\* through Starting, Processing prompt, Generating response and Completed, and
\* is Idle after 'all slots are idle'.
C26_NewTaskAfterCompleted ==
    /\ [][(lp.st = "serving" /\ lp.status.status = "Completed" /\ lp'.fed = lp.fed + 1
              /\ IsTaskLine(lp'.lines[lp'.fed]))
            => (lp'.status.status = "Starting" /\ lp'.pending = NoTiming)]_vars
    /\ [](lp.st = "serving" /\ lp.status.status = "Completed" =>
            /\ lp.csrc[1] > lp.since /\ lp.csrc[2] > lp.since
            /\ lp.status.prompt_tokens = 2 + lp.task
            /\ lp.status.generated_tokens = 4 + lp.task)
    /\ [](lp.st = "serving" /\ lp.task = 2 /\ lp.pos = 0 =>
            /\ Phases(lp.hist, TaskStart(2)) \in
                  {<<"Starting", "Processing prompt", "Generating response", "Completed">>,
                   <<"Starting", "Processing prompt", "Generating response", "Completed", "Idle">>}
            /\ lp.lines[Len(lp.lines)] = AllIdle => lp.status.status = "Idle")

\* The second generation began while the status of the first was still
\* Completed, has completed with its own counts and the worker went idle.
C26_Witness ==
    /\ lp.st = "serving"
    /\ lp.task = 2 /\ lp.pos = 0
    /\ lp.since = TaskStart(2)
    /\ lp.hist[lp.since] = "Starting"
    /\ "Completed" \in {lp.hist[k] : k \in lp.since..Len(lp.hist)}
    /\ lp.status = IdleStatus

\* ---------------------------------------------------------------------
\* The command line of the worker (LlamaCppRunner.__init__ and the head of
\* LlamaCppRunner.start).  A parameter key is the sequence of its words, which
\* the configuration joins with "_" and the command line with "-"; a value
\* is a boolean or something else, of which only str(value) is used.

\* The most parameters a model is configured with.
MaxParams == 3

RECURSIVE Join(_, _)
Join(words, sep) ==
    IF Len(words) = 0 THEN ""
    ELSE IF Len(words) = 1 THEN words[1]
    ELSE words[1] \o sep \o Join(Tail(words), sep)

\* The keys of the parameters: port, ctx_size, flash_attn.
ParamKeys == {<<"port">>, <<"ctx", "size">>, <<"flash", "attn">>}

BoolValue(b) == [bool |-> TRUE, truth |-> b, str |-> IF b THEN "True" ELSE "False"]
OtherValue(s) == [bool |-> FALSE, truth |-> FALSE, str |-> s]

\* true, false, the integer 8080 and the string q8_0
ParamValues == {BoolValue(TRUE), BoolValue(FALSE), OtherValue("8080"), OtherValue("q8_0")}

Param(key, value) == [key |-> key, value |-> value]

\* The parameters of a model in the order of the configuration (**kwargs
\* keeps it), every key at most once.
RECURSIVE ParamLists(_)
ParamLists(n) ==
    IF n = 0 THEN {<<>>}
    ELSE LET shorter == ParamLists(n - 1)
         IN shorter \cup
            {Append(ps, Param(key, value)) :
                ps \in {qs \in shorter : Len(qs) = n - 1},
                key \in ParamKeys, value \in ParamValues}

DistinctKeys(ps) == \A j, k \in DOMAIN ps : j # k => ps[j].key # ps[k].key

\* "port" in self.kwargs / self.kwargs["port"]
HasKey(kwargs, key) == \E k \in DOMAIN kwargs : kwargs[k].key = key
Lookup(kwargs, key) == kwargs[CHOOSE k \in DOMAIN kwargs : kwargs[k].key = key].value

\* The loop over self.kwargs.items() without the test for booleans: every
\* parameter but port gives its flag and str(value).
RECURSIVE ExtraArgsStringified(_)
ExtraArgsStringified(kwargs) ==
    IF kwargs = <<>> THEN <<>>
    ELSE LET key == kwargs[1].key
             value == kwargs[1].value
             arg_name == Join(key, "-")
         IN (IF Join(key, "_") = "port" THEN <<>>
             ELSE <<"--" \o arg_name, value.str>>)
            \o ExtraArgsStringified(Tail(kwargs))

\* The loop over self.kwargs.items(): what it appends to the command.
RECURSIVE ExtraArgs(_)
ExtraArgs(kwargs) ==
    IF kwargs = <<>> THEN <<>>
    ELSE LET key == kwargs[1].key
             value == kwargs[1].value
             arg_name == Join(key, "-")
         IN (IF Join(key, "_") = "port" THEN <<>>
             ELSE IF value.bool
                  THEN (IF value.truth THEN <<"--" \o arg_name>> ELSE <<>>)
                  ELSE <<"--" \o arg_name, value.str>>)
            \o ExtraArgs(Tail(kwargs))

\* The command LlamaCppRunner.start passes to create_subprocess_exec;
\* llama_cpp_runtime is "" when the thread was given none.
Command(llama_cpp_runtime, model_name, model_path, kwargs) ==
    <<IF llama_cpp_runtime = "" THEN "llama-server" ELSE llama_cpp_runtime,
      "--model", model_path, "--alias", model_name, "--host", "127.0.0.1", "--port",
      IF ~HasKey(kwargs, <<"port">>) THEN "0" ELSE Lookup(kwargs, <<"port">>).str>>
    \o ExtraArgs(kwargs)

\* A runner that was constructed and has not been started.
NewRunner(llama_cpp_runtime, model_name, model_path, kwargs) ==
    [st |-> "constructed", llama_cpp_runtime |-> llama_cpp_runtime,
     model_name |-> model_name, model_path |-> model_path, kwargs |-> kwargs,
     command |-> <<>>]

\* LlamaCppRunner.start up to create_subprocess_exec(*command, ...)
RunnerStart ==
    /\ launch.st = "constructed"
    /\ launch' = [launch EXCEPT !.st = "started",
                    !.command = Command(launch.llama_cpp_runtime, launch.model_name,
                                        launch.model_path, launch.kwargs)]
    /\ UNCHANGED <<conf, managerVars, wk, body, bridge, gw, lp, rd>>

LaunchInit ==
    /\ Quiescent
    /\ launch \in {NewRunner(rt, "m1", "/models/m1.gguf", kwargs) :
                     rt \in {"", "/opt/llama-server"},
                     kwargs \in {ps \in ParamLists(MaxParams) : DistinctKeys(ps)}}
    /\ gw = Absent /\ lp = Absent /\ rd = Absent

LaunchNext == RunnerStart

LaunchSpec == LaunchInit /\ [][LaunchNext]_vars

\* The parameters other than port, in their order.
OtherParams(kwargs) == SelectSeq(kwargs, LAMBDA prm : prm.key # <<"port">>)

\* What the command holds for one parameter.
ArgsOf(prm) ==
    IF prm.value = BoolValue(TRUE) THEN <<"--" \o Join(prm.key, "-")>>
    ELSE IF prm.value = BoolValue(FALSE) THEN <<>>
    ELSE <<"--" \o Join(prm.key, "-"), prm.value.str>>

\* The command from its tenth word on is cut into the pieces of the given
\* parameters, one after the other.
RECURSIVE MadeOf(_, _)
MadeOf(words, prms) ==
    IF prms = <<>> THEN words = <<>>
    ELSE LET piece == ArgsOf(prms[1])
         IN /\ Len(words) >= Len(piece)
            /\ SubSeq(words, 1, Len(piece)) = piece
            /\ MadeOf(SubSeq(words, Len(piece) + 1, Len(words)), Tail(prms))

\* C27: the worker's command line begins <command> --model <path> --alias
\* <name> --host 127.0.0.1 --port <p>, with p the port parameter if it is set
\* and 0 otherwise, followed for every other parameter in order by its flag
\* (the key with "_" replaced by "-") alone when the value is true, by
\* nothing when it is false and by the flag and the stringified value
\* otherwise; --port occurs exactly once.
C27_CommandLine ==
    launch.st = "started" =>
        LET c == launch.command
            p == IF \E k \in DOMAIN launch.kwargs : launch.kwargs[k].key = <<"port">>
                 THEN CHOOSE s \in {prm.value.str : prm \in {launch.kwargs[k] : k \in DOMAIN launch.kwargs}} :
                        \E k \in DOMAIN launch.kwargs :
                            launch.kwargs[k].key = <<"port">> /\ launch.kwargs[k].value.str = s
                 ELSE "0"
        IN /\ Len(c) >= 9
           /\ c[1] = (IF launch.llama_cpp_runtime = "" THEN "llama-server"
                      ELSE launch.llama_cpp_runtime)
           /\ SubSeq(c, 2, 9) = <<"--model", launch.model_path, "--alias", launch.model_name,
                                  "--host", "127.0.0.1", "--port", p>>
           /\ MadeOf(SubSeq(c, 10, Len(c)), OtherParams(launch.kwargs))
           /\ Cardinality({k \in DOMAIN c : c[k] = "--port"}) = 1

\* A command was built from a port, a false flag and a valued parameter.
C27_Witness ==
    /\ launch.st = "started"
    /\ launch.kwargs = <<Param(<<"flash", "attn">>, BoolValue(FALSE)),
                         Param(<<"port">>, OtherValue("8080")),
                         Param(<<"ctx", "size">>, OtherValue("q8_0"))>>
    /\ launch.command = <<"llama-server", "--model", "/models/m1.gguf", "--alias", "m1",
                          "--host", "127.0.0.1", "--port", "8080", "--ctx-size", "q8_0">>

\* ---------------------------------------------------------------------
\* The output of one worker run as its thread reads it: first by
\* LlamaCppRunner.wait_for_server_startup, after the startup line by
\* LlamaRunnerThread._read_output_continuously.  A line is what the startup
\* detection sees in it and its place in the output (no two lines are the
\* same): no marker, startup pattern A or B with its port, or a marker
\* without its port pattern.

\* The lines read before the startup line, and after it.
MaxStartupLines == 11
MaxLateLines == 2

OutLine(kind, port, k) == [kind |-> kind, port |-> port, k |-> k]

\* What a line may be: "main: server is listening on http://127.0.0.1:<p>",
\* 'HTTP server listening ... port="<p>"', a marker without that, or neither.
OutKinds ==
    {[kind |-> "noise", port |-> 0], [kind |-> "marker_noport", port |-> 0],
     [kind |-> "listening", port |-> 8080], [kind |-> "listening", port |-> 9090],
     [kind |-> "alt_listening", port |-> 8080]}

\* startup_pattern or alt_startup_pattern is found in the line
HasMarker(line) == line.kind \in {"listening", "alt_listening", "marker_noport"}

\* ... and so is the port pattern that belongs to it
FullMatch(line) == line.kind \in {"listening", "alt_listening"}

\* A run whose process was just created: out is every line read so far,
\* ring is runner._output_buffer, port is runner.port (0 is None), ready
\* counts the port_ready signals, errors the error signals of the thread.
NewRun ==
    [st |-> "startup", out |-> <<>>, ring |-> <<>>, port |-> 0, ready |-> 0,
     errors |-> 0, alive |-> TRUE, late |-> 0]

\* The process exits; its pipe may still hold output.
RdProcessExits ==
    /\ rd.st \in {"startup", "serving"}
    /\ rd.alive
    /\ rd' = [rd EXCEPT !.alive = FALSE]
    /\ UNCHANGED <<conf, managerVars, wk, body, bridge, gw, lp, launch>>

\* One pass of the loop of wait_for_server_startup with a line read, and what
\* start() and run_async do when it returns: the line is buffered; a marker
\* with its port sets the port and run_async emits port_ready; a marker
\* without its port, or any line once the process has exited, returns False
\* and run_async raises and emits error.
StartupLine(r, line) ==
    LET buffered == [r EXCEPT !.out = Append(@, line), !.ring = RingAppend(@, line)]
    IN IF FullMatch(line)
       THEN [buffered EXCEPT !.st = "serving", !.port = line.port, !.ready = @ + 1]
       ELSE IF HasMarker(line) \/ ~r.alive
       THEN [buffered EXCEPT !.st = "failed", !.errors = @ + 1]
       ELSE buffered

RdStartupReadsLine ==
    /\ rd.st = "startup"
    /\ Len(rd.out) < MaxStartupLines
    /\ \E kind \in OutKinds :
        rd' = StartupLine(rd, OutLine(kind.kind, kind.port, Len(rd.out) + 1))
    /\ UNCHANGED <<conf, managerVars, wk, body, bridge, gw, lp, launch>>

\* readline() returns b"" during startup: the process has closed its output.
RdStartupEndOfStream ==
    /\ rd.st = "startup"
    /\ ~rd.alive
    /\ rd' = [rd EXCEPT !.st = "failed", !.errors = @ + 1]
    /\ UNCHANGED <<conf, managerVars, wk, body, bridge, gw, lp, launch>>

\* _read_output_continuously reads a line: it is decoded and logged.
RdReadsLine ==
    /\ rd.st = "serving"
    /\ rd.late < MaxLateLines
    /\ \E kind \in OutKinds :
        rd' = [rd EXCEPT !.out = Append(@, OutLine(kind.kind, kind.port, Len(rd.out) + 1)),
                         !.late = @ + 1]
    /\ UNCHANGED <<conf, managerVars, wk, body, bridge, gw, lp, launch>>

\* _read_output_continuously reads b"" and process.wait() returns.
RdEndOfStream ==
    /\ rd.st = "serving"
    /\ ~rd.alive
    /\ rd' = [rd EXCEPT !.st = "ended"]
    /\ UNCHANGED <<conf, managerVars, wk, body, bridge, gw, lp, launch>>

ReaderInit ==
    /\ Quiescent
    /\ rd = NewRun
    /\ gw = Absent /\ lp = Absent /\ launch = Absent

ReaderNext ==
    \/ RdProcessExits
    \/ RdStartupReadsLine
    \/ RdStartupEndOfStream
    \/ RdReadsLine
    \/ RdEndOfStream

ReaderSpec == ReaderInit /\ [][ReaderNext]_vars

\* The places of the lines read so far that match a full pattern.
FullMatches == {k \in DOMAIN rd.out : FullMatch(rd.out[k])}

\* A line was read in this step.
ReadsLine == rd.st # "absent" /\ Len(rd'.out) = Len(rd.out) + 1

\* C28: in a worker run the port is that of the first line read that holds a
\* startup marker together with its port pattern, port_ready is signalled at
\* most once (with that line), later matching lines change neither the port
\* nor signal ready again, and a line that does not match a full pattern is
\* only buffered: read while the process is alive, it does not end the
\* startup detection.
C28_FirstMatchSetsPort ==
    /\ [](rd.st # "absent" =>
            /\ rd.ready <= 1
            /\ rd.ready = 1 <=> FullMatches # {}
            /\ IF FullMatches = {} THEN rd.port = 0
               ELSE rd.port = rd.out[Min(FullMatches)].port)
    /\ [][(ReadsLine /\ rd.st = "startup" /\ rd.alive /\ ~FullMatch(rd'.out[Len(rd'.out)])) =>
             /\ rd'.st = "startup"
             /\ rd'.ring = RingAppend(rd.ring, rd'.out[Len(rd'.out)])
             /\ rd'.errors = rd.errors /\ rd'.port = rd.port /\ rd'.ready = rd.ready]_vars

\* The last n lines of a sequence.
LastLines(s, n) == IF Len(s) <= n THEN s ELSE SubSeq(s, Len(s) - n + 1, Len(s))

\* C29: every line read from the worker's output, before and after the
\* startup line, is in the output ring: the ring never holds more than
\* RingMax lines and always holds the most recently read lines in the
\* order of their arrival.
C29_RingHoldsLatestLines ==
    rd.st # "absent" =>
        /\ Len(rd.ring) <= RingMax
        /\ rd.ring = LastLines(rd.out, RingMax)

\* The workers of the supervisor's set that are still starting: the thread
\* is registered and running and has not detected a port.
StillStarting(m) ==
    /\ threads[m] # 0
    /\ inst[threads[m]].phase \in {"init", "spawn", "startup"}

\* C30: in every reachable state a worker for which get_runner_port returns
\* a port has a live process and the port detected from the output of that
\* process, and a worker that is still starting has a live process and
\* get_runner_port returns None for it.
C30_PortAndProcess ==
    \A m \in Models :
        /\ GetRunnerPort(m) # 0 =>
              /\ RunnerIsRunning(inst[threads[m]])
              /\ inst[threads[m]].phase = "serving"
              /\ GetRunnerPort(m) = PortOf(threads[m])
        /\ StillStarting(m) =>
              /\ RunnerIsRunning(inst[threads[m]])
              /\ GetRunnerPort(m) = 0

\* ------------------------------------------------------------------------
\* The order of LlamaCppRunner.stop()
\* ------------------------------------------------------------------------
\* Coroutine k has emitted the stopped signal of the runner (the finally
\* block of LlamaCppRunner.stop).
StoppedEmitted(w, k) == w.co[k] \in {"stopped", "expired"}

\* The signals delivered in the step.
SignalsSent ==
    IF Len(wk'.sigs) > Len(wk.sigs)
    THEN SubSeq(wk'.sigs, Len(wk.sigs) + 1, Len(wk'.sigs))
    ELSE <<>>

\* C31: a stop coroutine that begins while the process is alive sends the
\* soft signal and waits; the hard kill is sent only by a coroutine whose
\* wait after the soft signal expired with the process still alive, so never
\* before a soft signal; the stopped signal is emitted only by a coroutine
\* whose wait is over: after the soft signal once the exit is recorded, or
\* after the kill.
C31_StopSequence ==
    /\ [][\A k \in DOMAIN wk.co :
            /\ (wk.co[k] = "sched" /\ wk'.co[k] # "sched" /\ wk.ref /\ wk.proc = "alive")
                  => /\ wk'.co[k] = "term"
                     /\ SignalsSent = <<"TERM">>
            /\ (wk.co[k] # "kill" /\ wk'.co[k] = "kill")
                  => /\ wk.co[k] = "term"
                     /\ wk.proc = "alive"
                     /\ SignalsSent = <<"KILL">>
            /\ (~StoppedEmitted(wk, k) /\ StoppedEmitted(wk', k))
                  => \/ wk.co[k] = "term" /\ wk.seen /\ wk.proc = "exited"
                     \/ wk.co[k] = "kill"]_vars
    /\ [](\A j \in DOMAIN wk.sigs :
            wk.sigs[j] = "KILL" => \E i \in 1 .. j - 1 : wk.sigs[i] = "TERM")
    /\ [](\A k \in DOMAIN wk.co : wk.co[k] = "kill" => "KILL" \in {wk.sigs[j] : j \in DOMAIN wk.sigs})

\* A stop() of a server that ignores the soft signal ran through the kill
\* path: soft signal, 15 s, kill, the exit recorded, stopped emitted.
C31_Witness ==
    /\ wk.calls = 1
    /\ wk.sigs = <<"TERM", "KILL">>
    /\ wk.co = <<"stopped">>
    /\ wk.proc = "exited"

\* ------------------------------------------------------------------------
\* A streaming request on the OpenAI gateway
\* (lmstudio_proxy_thread._dynamic_route_v1_request_generator)
\* ------------------------------------------------------------------------
\* The chunks of the upstream reply forwarded to the client before the reply
\* ends or fails.
MaxChunks == 2

\* What the generator yields: a chunk of the worker's reply ("data", or
\* "done" for data: [DONE]) or data: {"error": {"type": type, ...}}.
StreamEvent(ev, type) == [ev |-> ev, type |-> type]

\* A streaming request as the handler passes it to the generator: the
\* published ids, the model field ("" is absent), what the configuration
\* says about the runtime of the model, and the content type of the worker's
\* reply.  out is what the generator has yielded, n the chunks forwarded.
ArrivedStream(ids, model, rt, backend) ==
    [st |-> "received", ids |-> ids, model |-> model, rt |-> rt, backend |-> backend,
     target |-> "", cause |-> "none", out |-> <<>>, n |-> 0]

\* error_payload = {"error": ...}; yield f'data: {json.dumps(error_payload)}\n\n';
\* return
StreamError(g, cause, type) ==
    [g EXCEPT !.st = "ended", !.cause = cause, !.out = Append(@, StreamEvent("error", type))]

\* The generator up to its first await on the supervisor or the worker.
StreamHandle ==
    /\ gw.st = "received"
    /\ \E running \in BOOLEAN :
        LET target == LMStudioResolve(gw.ids, gw.model)
        IN gw' =
            IF gw.model = "" THEN StreamError(gw, "invalid", "invalid_request_error")
            ELSE IF target = "" THEN StreamError(gw, "unknown_model", "invalid_request_error")
            ELSE IF gw.rt # "ok" THEN StreamError(gw, "configuration", "configuration_error")
            ELSE [gw EXCEPT !.st = IF running THEN "forwarding" ELSE "starting",
                            !.target = target]
    /\ UNCHANGED <<conf, managerVars, wk, body, bridge, lp, launch, rd>>

\* await asyncio.wait_for(future, 240) ends: with the port; with the
\* exception the supervisor set or asyncio.TimeoutError, which the except
\* clauses turn into an error event; or with CancelledError when the awaited
\* future was cancelled by another waiter (its wait_for timed out, or its
\* client disconnected).  CancelledError is no Exception: no clause catches
\* it and the generator ends by raising it.
StreamStartupEnds ==
    /\ gw.st = "starting"
    /\ \E outcome \in {"ready", "startup_failure", "capacity", "startup_timeout",
                       "startup_cancelled"} :
        gw' = IF outcome = "ready" THEN [gw EXCEPT !.st = "forwarding"]
              ELSE IF outcome = "startup_cancelled"
              THEN [gw EXCEPT !.st = "aborted", !.cause = outcome]
              ELSE StreamError(gw, outcome, "runner_startup_error")
    /\ UNCHANGED <<conf, managerVars, wk, body, bridge, lp, launch, rd>>

\* async for chunk in proxy_response.aiter_bytes(): yield chunk (with the
\* system_fingerprint added to a JSON payload).
StreamForwardsChunk ==
    /\ gw.st = "forwarding"
    /\ gw.backend = "text/event-stream"
    /\ gw.n < MaxChunks
    /\ \E ev \in {"data", "done"} :
        gw' = [gw EXCEPT !.out = Append(@, StreamEvent(ev, "none")), !.n = @ + 1]
    /\ UNCHANGED <<conf, managerVars, wk, body, bridge, lp, launch, rd>>

\* The request to the worker ends: the reply is complete (a reply that is
\* no event stream is yielded as one data event followed by data: [DONE]),
\* or an exception is raised; a refused connection before any chunk only.
StreamForwardEnds ==
    /\ gw.st = "forwarding"
    /\ \E raised \in {"nothing", "httpx.ConnectError", "httpx.ReadTimeout",
                      "asyncio.TimeoutError", "Exception"} :
        /\ raised = "httpx.ConnectError" => gw.n = 0
        /\ gw' = IF raised = "nothing"
                 THEN [gw EXCEPT !.st = "ended",
                                 !.out = IF gw.backend = "text/event-stream" THEN @
                                         ELSE @ \o <<StreamEvent("data", "none"),
                                                     StreamEvent("done", "none")>>]
                 ELSE StreamError(gw, ForwardCause(raised), ForwardErrorType(raised))
    /\ UNCHANGED <<conf, managerVars, wk, body, bridge, lp, launch, rd>>

StreamInit ==
    /\ Quiescent
    /\ gw \in {ArrivedStream(ids, model, rt, backend) :
                 ids \in PublishedIds, model \in {"", "ext1", "m1", "zzz"},
                 rt \in {"ok", "unset"},
                 backend \in {"text/event-stream", "application/json"}}
    /\ lp = Absent /\ launch = Absent /\ rd = Absent

StreamNext ==
    \/ StreamHandle
    \/ StreamStartupEnds
    \/ StreamForwardsChunk
    \/ StreamForwardEnds

StreamSpec == StreamInit /\ [][StreamNext]_vars

\* The error events among what the generator has yielded.
ErrorEvents(g) == {k \in DOMAIN g.out : g.out[k].ev = "error"}

\* The error kinds of a streaming request: invalid request, unknown model,
\* the wait for the startup ended without a port (failure, capacity,
\* timeout, cancellation), the communication with the worker failed.
StreamFailed(g) ==
    g.cause \in {"invalid", "unknown_model", "startup_failure", "capacity",
                 "startup_timeout", "startup_cancelled", "communication", "read_timeout"}

\* C32: a streaming request on the OpenAI gateway that has failed (invalid
\* request, unknown model, startup failure or timeout, communication failure)
\* has ended with exactly one error event, and that event is the last thing
\* the gateway emitted.
C32_OneErrorEventEndsStream ==
    /\ StreamFailed(gw)
          => /\ Cardinality(ErrorEvents(gw)) = 1
             /\ gw.out[Len(gw.out)].ev = "error"
    /\ ErrorEvents(gw) # {} => gw.st = "ended"

\* ------------------------------------------------------------------------
\* One LlamaLogParser instance used for several calls
\* ------------------------------------------------------------------------
\* The calls made on the instance before the call that is compared.
MaxEarlier == 2
\* The lines of a log given to parse_multiple_lines on the instance.
MaxSnapshot == 2

\* parse_multiple_lines on an instance whose pending_timing_info is pending:
\* the returned status and the pending_timing_info after the call.  The
\* timing shortcut neither reads nor writes it; otherwise it is reset
\* (line 239) before the lines are parsed one by one.
SnapshotOn(pending, lines) ==
    IF TimingShortcut(lines)
    THEN [status |-> parse_multiple_lines(lines), pending |-> pending]
    ELSE LineByLine(lines, Len(lines))

\* The values of current_status passed to parse_log_line.
CurrentStatuses ==
    {IdleStatus, ModelStatusInfo("Generating response", 1, 0), ModelStatusInfo("Completed", 1, 1)}

\* A parser instance after __init__, next to a second, fresh instance; op is
\* the call made on both with the same arguments, used and fresh are the
\* statuses the two returned.
NewInstance ==
    [st |-> "instance", pending |-> NoTiming, calls |-> 0, op |-> "none",
     used |-> NoSnapshot, fresh |-> NoSnapshot]

\* An earlier parser.parse_log_line(line, current_status) on the instance
LpEarlierLine ==
    /\ lp.st = "instance" /\ lp.op = "none"
    /\ lp.calls < MaxEarlier
    /\ \E line \in LogLines, cs \in CurrentStatuses :
        lp' = [lp EXCEPT !.pending = parse_log_line(line, cs, lp.pending).pending,
                         !.calls = @ + 1]
    /\ UNCHANGED <<conf, managerVars, wk, body, bridge, gw, launch, rd>>

\* An earlier parser.parse_multiple_lines(lines) on the instance
LpEarlierSnapshot ==
    /\ lp.st = "instance" /\ lp.op = "none"
    /\ lp.calls < MaxEarlier
    /\ \E lines \in SeqsUpTo(LogLines, MaxSnapshot) :
        lp' = [lp EXCEPT !.pending = SnapshotOn(lp.pending, lines).pending,
                         !.calls = @ + 1]
    /\ UNCHANGED <<conf, managerVars, wk, body, bridge, gw, launch, rd>>

\* parse_log_line(line, current_status) on the instance and on a fresh one
LpCompareLine ==
    /\ lp.st = "instance" /\ lp.op = "none"
    /\ \E line \in LogLines, cs \in CurrentStatuses :
        lp' = [lp EXCEPT !.op = "parse_log_line",
                         !.used = parse_log_line(line, cs, lp.pending).status,
                         !.fresh = parse_log_line(line, cs, NoTiming).status]
    /\ UNCHANGED <<conf, managerVars, wk, body, bridge, gw, launch, rd>>

\* parse_multiple_lines(lines) on the instance and on a fresh one
LpCompareSnapshot ==
    /\ lp.st = "instance" /\ lp.op = "none"
    /\ \E lines \in SeqsUpTo(LogLines, MaxSnapshot) :
        lp' = [lp EXCEPT !.op = "parse_multiple_lines",
                         !.used = SnapshotOn(lp.pending, lines).status,
                         !.fresh = SnapshotOn(NoTiming, lines).status]
    /\ UNCHANGED <<conf, managerVars, wk, body, bridge, gw, launch, rd>>

InstanceInit ==
    /\ Quiescent
    /\ lp = NewInstance
    /\ gw = Absent /\ launch = Absent /\ rd = Absent

InstanceNext ==
    \/ LpEarlierLine
    \/ LpEarlierSnapshot
    \/ LpCompareLine
    \/ LpCompareSnapshot

InstanceSpec == InstanceInit /\ [][InstanceNext]_vars

\* C33: a parser instance that was used for earlier calls returns, for
\* parse_log_line and for parse_multiple_lines, the status a fresh parser
\* returns for the same lines and the same current status.
C33_StatusIndependentOfEarlierCalls ==
    lp.op # "none" => lp.used = lp.fresh

\* ------------------------------------------------------------------------
\* The supervisor's set of workers and the notifications of earlier workers
\* ------------------------------------------------------------------------
\* The stopped notification at the head of thread i's queue was posted by an
\* earlier worker of its model: a newer worker is registered under the name.
StaleStopped(i) ==
    /\ evq[i] # <<>>
    /\ Head(evq[i]).type = "stopped"
    /\ threads[Head(evq[i]).model] \notin {0, i}

\* C34: handling the stopped notification of an earlier worker of model m
\* after a newer worker of m was registered leaves the newer worker in the
\* supervisor's set and leaves the newer worker's startup request as it was.
C34_StaleStoppedKeepsNewWorker ==
    [][\A i \in Insts :
          (StaleStopped(i) /\ OnStopped(i)) =>
              LET m == Head(evq[i]).model
              IN /\ threads'[m] = threads[m]
                 /\ fut'[threads[m]] = fut[threads[m]]]_vars

\* ------------------------------------------------------------------------
\* Rejected startup requests next to running workers
\* ------------------------------------------------------------------------
\* One configuration entry for each reason request_runner_start rejects a
\* model for (lines 112-138), handed to the manager as written.
RejectedConfigs ==
    { ModelConfig("file", "named", "dict", "", FALSE, FALSE, FALSE),
      ModelConfig("file", "named", "other", "", FALSE, FALSE, FALSE),
      ModelConfig("none", "named", "dict", "bin", TRUE, FALSE, FALSE),
      ModelConfig("nofile", "named", "dict", "bin", TRUE, FALSE, FALSE),
      ModelConfig("file", "named", "dict", "bin", FALSE, FALSE, FALSE) }

\* concurrent_runners_limit 1 with a valid model m1 and a model m2 whose
\* entry is rejected; and limit 2 with three valid models, where the third
\* request exceeds the capacity.
RejectInit ==
    /\ conf \in { [Deployment(1, {"m1", "m2"}, MaxInst - 1, 0, 0, "start")
                      EXCEPT !.cfg = [@ EXCEPT !["m2"] = e]] : e \in RejectedConfigs }
                \cup { Deployment(2, {"m1", "m2", "m3"}, MaxInst - 1, 0, 0, "start") }
    /\ Constructed

RejectNext ==
    \/ \E m \in Configured : RequestOnManagerThread(m)
    \/ \E m \in Configured : CleanupCompletedFuture(m)
    \/ \E i \in Insts : ThreadRunBegin(i)
    \/ \E i \in Insts : RunnerSpawn(i)
    \/ \E i \in Insts : RunnerSpawnFails(i)
    \/ \E i \in Insts : ReadListeningLine(i)
    \/ \E i \in Insts, rc \in {0, 1} : ProcessExits(i, rc)
    \/ \E i \in Insts : StopCoroutineRuns(i)
    \/ \E i \in Insts : ThreadFinishes(i)
    \/ \E i \in Insts : OnPortReady(i)
    \/ \E i \in Insts : OnError(i)
    \/ \E i \in Insts : OnStopped(i)

RejectSpec == RejectInit /\ [][RejectNext]_vars

\* The step is a request_runner_start(m) that is rejected: it returns a
\* future completed with a configuration error or the capacity error.
RejectedRequest(m) ==
    /\ IsRequestStep(m)
    /\ ~StartupPending(m)
    /\ futures'[m].kind = "error"
    /\ futures'[m].err \in {ErrCapacity, ErrConfig(ConfigCheck(m))}

\* C35: a rejected request_runner_start leaves the set of workers and every
\* worker thread as they were: none is asked to stop and none is created.
C35_RejectionLeavesWorkers ==
    [][\A m \in Models : RejectedRequest(m) => /\ threads' = threads
                                               /\ inst' = inst]_vars

\* ------------------------------------------------------------------------
\* Completion of startup requests
\* ------------------------------------------------------------------------
\* Worker thread i takes its next step: run() begins, the process is spawned
\* (or cannot be), the process prints its startup line or exits while the
\* thread waits for the startup, run() returns.
WorkerProgress(i) ==
    \/ ThreadRunBegin(i)
    \/ RunnerSpawn(i)
    \/ RunnerSpawnFails(i)
    \/ inst[i].phase = "startup" /\ ReadListeningLine(i)
    \/ inst[i].phase = "startup" /\ \E rc \in {0, 1} : ProcessExits(i, rc)
    \/ ThreadFinishes(i)

\* The operating system schedules every worker thread, every server started
\* prints its startup line or exits, the loop of a worker thread runs a stop
\* coroutine scheduled on it, a single-shot timer that was armed fires, and
\* the Qt event loop delivers what was queued.
StartupFairness ==
    /\ \A i \in Insts : WF_vars(WorkerProgress(i))
    /\ \A i \in Insts : WF_vars(StopCoroutineRuns(i))
    /\ WF_vars(\E m \in Models : CleanupCompletedFuture(m))
    /\ EventLoopFairness

\* One model with concurrent_runners_limit 1; request_runner_start and
\* stop_llama_runner are called on the manager's thread at any time.
StartupInit ==
    /\ conf = Deployment(1, {"m1"}, MaxInst - 1, MaxLines, 0, "all")
    /\ Constructed

StartupFairSpec == StartupInit /\ [][SupervisorNext]_vars /\ StartupFairness

\* C36: every startup request (the future created together with a worker
\* thread and registered by request_runner_start) that is pending is
\* eventually completed, with a port or an error.
C36_StartupRequestCompletes ==
    \A i \in Insts : (fut[i].st = "pending") ~> (fut[i].st \in {"port", "error"})

\* ------------------------------------------------------------------------
\* The time-out of one waiting caller
\* ------------------------------------------------------------------------
\* C37: when the 240 s of one caller expire while another caller awaits the
\* same pending startup request, the request stays pending for the other
\* caller (it is neither failed nor cancelled) and the worker that is
\* starting is left as it is.
C37_TimeoutKeepsRequest ==
    [][\A c \in Callers, d \in Callers :
          (CallerTimesOut(c) /\ WaitsWith(c, d)) =>
              /\ fut'[callers[d].h.id].st = "pending"
              /\ callers'[d] = callers[d]
              /\ inst' = inst]_vars

\* ------------------------------------------------------------------------
\* Live processes and the supervisor's set
\* ------------------------------------------------------------------------
\* C38: every worker thread whose process is alive is the thread registered
\* in the supervisor's set under its model name.
C38_LiveWorkerRegistered ==
    \A i \in Insts : inst[i].proc = "alive" => threads[inst[i].model] = i

====
